---------------------------- MODULE Spec2Model ----------------------------
(***************************************************************************)
(* OpenCore-Legacy-Patcher: the root-volume patchset catalog               *)
(* (datasets/sys_patch_dict.py, class SystemPatchDictionary) and the       *)
(* validation of one target version against the payload                    *)
(* (support/validation.py, PatcherValidation._validate_root_patch_files).  *)
(*                                                                         *)
(* A target is (os_major, os_minor, marketing_version,                     *)
(* non_metal_os_support).  Strings the code only copies (file names,       *)
(* source tags, commands) are TLA+ strings; marketing_version, which the   *)
(* code inspects character by character (startswith, version parsing), is  *)
(* a sequence of one-character strings.                                    *)
(***************************************************************************)
EXTENDS Integers, Sequences, FiniteSets, TLC

VARIABLES
    os_major,                    \* self.os_major
    os_minor,                    \* self.os_minor
    marketing_version,           \* self.marketing_version
    non_metal_os_support,        \* self.non_metal_os_support
    affected_by_cve_2024_23227,  \* self.affected_by_cve_2024_23227
    patchset_dict,               \* self.patchset_dict, groups in declaration order
    pc,                          \* "start", "constructed", "validated", "resolved", "raised"
    exception,                   \* the exception that ended the call, "" when none
    verify_unused_files,         \* PatcherValidation.verify_unused_files
    active_patchset_files,       \* PatcherValidation.active_patchset_files
    payload_absent,              \* source paths that do not exist in the payload store
    checked_groups,              \* names of the groups whose range test let them through
    checked_files,               \* source paths tested with Path.exists(), in order
    descriptors,                 \* the OpenCore-Legacy-Patcher-<major>.<minor>.plist files on disk
    plan,                        \* the resolved plan merged from the applicable groups
    run_pc,                      \* position in _validate_sys_patch / _find_unused_files
    mounted,                     \* the payload image is attached at payloads/Universal-Binaries
    overlay_exists,              \* the shadow file Universal-Binaries_overlay is on disk
    validated_versions,          \* (major, minor) of the calls the matrix loop has made
    unmount_attempted,           \* hdiutil detach has been run since the image was attached
    payload_tree,                \* entries of the payload store that the walk of rglob meets
    unused_files,                \* unused_files of the last _find_unused_files
    find_unused_runs,            \* number of calls of _find_unused_files
    serialized,                  \* names of the groups last handed to generate_patchset_plist
    commands,                    \* the external commands issued so far, with their exit codes
    dmg_exists,                  \* Universal-Binaries.dmg is on disk
    settings,                    \* the global settings in force: "default" or "flipped"
    model_index                  \* models the running _build_prebuilt/_build_dumps has done

vars == <<os_major, os_minor, marketing_version, non_metal_os_support,
          affected_by_cve_2024_23227, patchset_dict, pc, exception,
          verify_unused_files, active_patchset_files, payload_absent,
          checked_groups, checked_files, descriptors, plan,
          run_pc, mounted, overlay_exists, validated_versions,
          unmount_attempted, payload_tree, unused_files, find_unused_runs,
          serialized, commands, dmg_exists, settings, model_index>>

(* the state of the matrix run and of the orphan walk *)
run_vars == <<run_pc, mounted, overlay_exists, validated_versions,
              unmount_attempted, payload_tree, unused_files, find_unused_runs,
              commands, dmg_exists, settings, model_index>>

context == <<os_major, os_minor, marketing_version, non_metal_os_support>>

-----------------------------------------------------------------------------
(* Bounds of the model *)

MaxKernelMajor == 24
MaxKernelMinor == 10

-----------------------------------------------------------------------------
(* datasets/os_data.py: XNU major versions *)

sierra      == 16
high_sierra == 17
mojave      == 18
catalina    == 19
big_sur     == 20
monterey    == 21
ventura     == 22
sonoma      == 23
max_os      == 99

-----------------------------------------------------------------------------
(* float(f"{major}.{minor}"): the decimal numeral "major.minor" read as a   *)
(* number.  The value is kept exactly, as the fraction num/den with den a  *)
(* power of ten; numerals this short convert to distinct doubles in the    *)
(* same order, so comparing the fractions is comparing the floats.         *)

RECURSIVE Digits(_)
Digits(n) == IF n < 10 THEN 1 ELSE 1 + Digits(n \div 10)

RECURSIVE Pow10(_)
Pow10(k) == IF k = 0 THEN 1 ELSE 10 * Pow10(k - 1)

Float(major, minor) ==
    [num |-> major * Pow10(Digits(minor)) + minor, den |-> Pow10(Digits(minor))]

(* FloatLT with the boundary value admitted: <= written for < *)
FloatLT_inclusive(a, b) == a.num * b.den <= b.num * a.den

FloatLT(a, b) == a.num * b.den < b.num * a.den
FloatGT(a, b) == FloatLT(b, a)
FloatGE(a, b) == ~FloatLT(a, b)
FloatLE(a, b) == ~FloatLT(b, a)

os_float == Float(os_major, os_minor)

(* XNU kernel versions *)
macOS_12_0_B7 == Float(21, 1)
macOS_12_4    == Float(21, 5)
macOS_12_5    == Float(21, 6)
macOS_13_3    == Float(22, 4)
macOS_14_1    == Float(23, 1)
macOS_14_2    == Float(23, 2)
macOS_14_4    == Float(23, 4)

-----------------------------------------------------------------------------
(* Framebuffer resolvers *)

(* the ladder suffixed with the target's own major, not the literal 23 *)
resolve_ivy_bridge_framebuffers_target_major ==
    IF os_major < sonoma THEN "11.7.10"
    ELSE IF FloatLT(os_float, macOS_14_4) THEN "11.7.10-" \o ToString(os_major)
    ELSE "11.7.10-" \o ToString(os_major) \o ".4"

resolve_ivy_bridge_framebuffers ==
    IF os_major < sonoma THEN "11.7.10"
    ELSE IF FloatLT(os_float, macOS_14_4) THEN "11.7.10-23"
    ELSE "11.7.10-23.4"

resolve_kepler_geforce_framebuffers ==
    IF os_major < sonoma THEN "12.0 Beta 6"
    ELSE IF FloatLT(os_float, macOS_14_4) THEN "12.0 Beta 6-23"
    ELSE "12.0 Beta 6-23.4"

resolve_monterey_framebuffers ==
    IF os_major < sonoma THEN "12.5"
    ELSE IF FloatLT(os_float, macOS_14_4) THEN "12.5-23"
    ELSE "12.5-23.4"

-----------------------------------------------------------------------------
(* packaging.version.parse on the dotted-decimal strings of the model: a   *)
(* release is one or more runs of digits separated by single dots;         *)
(* anything else is InvalidVersion.  Releases compare component by         *)
(* component as numbers, the shorter one padded with zeros.                *)

DigitChars == <<"0", "1", "2", "3", "4", "5", "6", "7", "8", "9">>

IsDigit(c) == \E i \in 1..Len(DigitChars) : DigitChars[i] = c

DigitVal(c) == (CHOOSE i \in 1..Len(DigitChars) : DigitChars[i] = c) - 1

RECURSIVE ParseFrom(_, _, _, _)
ParseFrom(s, i, acc, cur) ==
    IF i > Len(s)
    THEN IF cur < 0 THEN [ok |-> FALSE, release |-> << >>]
                    ELSE [ok |-> TRUE, release |-> Append(acc, cur)]
    ELSE IF s[i] = "."
    THEN IF cur < 0 THEN [ok |-> FALSE, release |-> << >>]
                    ELSE ParseFrom(s, i + 1, Append(acc, cur), -1)
    ELSE IF IsDigit(s[i])
    THEN ParseFrom(s, i + 1, acc, (IF cur < 0 THEN 0 ELSE cur) * 10 + DigitVal(s[i]))
    ELSE [ok |-> FALSE, release |-> << >>]

parse(s) == ParseFrom(s, 1, << >>, -1)

Component(r, i) == IF i <= Len(r) THEN r[i] ELSE 0

VersionGE(a, b) ==
    LET n == IF Len(a) > Len(b) THEN Len(a) ELSE Len(b)
    IN  \A i \in 1..n :
            (\A j \in 1..(i - 1) : Component(a, j) = Component(b, j))
                => Component(a, i) >= Component(b, i)

startswith(s, prefix) ==
    Len(s) >= Len(prefix) /\ SubSeq(s, 1, Len(prefix)) = prefix

(* the predicate with the floors themselves left out: strictly above      *)
is_affect_by_cve_strictly_above_floor ==
    IF os_major > sonoma
    THEN [raised |-> FALSE, value |-> TRUE]
    ELSE LET parsed_version == parse(marketing_version)
             above(floor)   == /\ VersionGE(parsed_version.release, floor)
                               /\ ~VersionGE(floor, parsed_version.release)
         IN  IF ~parsed_version.ok
             THEN [raised |-> TRUE, value |-> FALSE]
             ELSE IF startswith(marketing_version, <<"1", "2">>)
             THEN [raised |-> FALSE, value |-> above(<<12, 7, 4>>)]
             ELSE IF startswith(marketing_version, <<"1", "3">>)
             THEN [raised |-> FALSE, value |-> above(<<13, 6, 5>>)]
             ELSE IF startswith(marketing_version, <<"1", "4">>)
             THEN [raised |-> FALSE, value |-> above(<<14, 4>>)]
             ELSE [raised |-> FALSE, value |-> FALSE]

(* the predicate keyed on the kernel major instead of on the leading      *)
(* characters of the marketing version                                    *)
is_affect_by_cve_keyed_on_kernel_major ==
    IF os_major > sonoma
    THEN [raised |-> FALSE, value |-> TRUE]
    ELSE LET parsed_version == parse(marketing_version)
         IN  IF ~parsed_version.ok
             THEN [raised |-> TRUE, value |-> FALSE]
             ELSE IF os_major = monterey
             THEN [raised |-> FALSE,
                   value  |-> VersionGE(parsed_version.release, <<12, 7, 4>>)]
             ELSE IF os_major = ventura
             THEN [raised |-> FALSE,
                   value  |-> VersionGE(parsed_version.release, <<13, 6, 5>>)]
             ELSE IF os_major = sonoma
             THEN [raised |-> FALSE,
                   value  |-> VersionGE(parsed_version.release, <<14, 4>>)]
             ELSE [raised |-> FALSE, value |-> FALSE]

(* __is_affect_by_cve_2024_23227: [raised, value] *)
is_affect_by_cve_2024_23227 ==
    IF os_major > sonoma
    THEN [raised |-> FALSE, value |-> TRUE]
    ELSE LET parsed_version == parse(marketing_version)
         IN  IF ~parsed_version.ok
             THEN [raised |-> TRUE, value |-> FALSE]
             ELSE IF startswith(marketing_version, <<"1", "2">>)
             THEN [raised |-> FALSE,
                   value  |-> VersionGE(parsed_version.release,
                                        parse(<<"1", "2", ".", "7", ".", "4">>).release)]
             ELSE IF startswith(marketing_version, <<"1", "3">>)
             THEN [raised |-> FALSE,
                   value  |-> VersionGE(parsed_version.release,
                                        parse(<<"1", "3", ".", "6", ".", "5">>).release)]
             ELSE IF startswith(marketing_version, <<"1", "4">>)
             THEN [raised |-> FALSE,
                   value  |-> VersionGE(parsed_version.release,
                                        parse(<<"1", "4", ".", "4">>).release)]
             ELSE [raised |-> FALSE, value |-> FALSE]

-----------------------------------------------------------------------------
(* The catalog: one definition per patch group, in the record               *)
(*   [category, name, DisplayName, MinimumOS, MaximumOS,                   *)
(*    Install, InstallNonRoot : sequences of <<directory, file, source>>,  *)
(*    Remove, RemoveNonRoot   : sequences of <<directory, file>>,          *)
(*    Processes               : sequence of <<command, requires root>>],   *)
(* entries in declaration order, a conditional entry present only when     *)
(* its condition holds.                                                    *)

NonMetalCommon ==
    [ category       |-> "Graphics",
      name           |-> "Non-Metal Common",
      DisplayName    |-> "",
      MinimumOS      |-> <<non_metal_os_support[1], 0>>,
      MaximumOS      |-> <<non_metal_os_support[Len(non_metal_os_support)], 99>>,
      Install        |-> << <<"/System/Library/Extensions", "IOSurface.kext", "10.15.7">>,
                           <<"/System/Library/Frameworks", "OpenGL.framework", "10.14.3">>,
                           <<"/System/Library/Frameworks", "CoreDisplay.framework", "10.14.4-" \o ToString(os_major)>>,
                           <<"/System/Library/Frameworks", "IOSurface.framework", "10.15.7-" \o ToString(os_major)>>,
                           <<"/System/Library/Frameworks", "QuartzCore.framework", "10.15.7-" \o ToString(os_major)>>,
                           <<"/System/Library/PrivateFrameworks", "GPUSupport.framework", "10.14.3">>,
                           <<"/System/Library/PrivateFrameworks", "SkyLight.framework", "10.14.6-" \o ToString(os_major)>> >>
                        \o (IF os_major >= sonoma THEN << <<"/System/Library/PrivateFrameworks", "FaceCore.framework", "13.5">> >> ELSE << >>)
                        \o (IF os_major >= monterey THEN << <<"/System/Applications", "Photo Booth.app", "11.7.9">> >> ELSE << >>),
      InstallNonRoot |-> (IF os_major >= monterey THEN << <<"/Library/Application Support/SkyLightPlugins", "DropboxHack.dylib", "SkyLightPlugins">> >> ELSE << >>)
                        \o (IF os_major >= monterey THEN << <<"/Library/Application Support/SkyLightPlugins", "DropboxHack.txt", "SkyLightPlugins">> >> ELSE << >>),
      Remove         |-> << <<"/System/Library/Extensions", "AMDRadeonX4000.kext">>,
                           <<"/System/Library/Extensions", "AMDRadeonX4000HWServices.kext">>,
                           <<"/System/Library/Extensions", "AMDRadeonX5000.kext">>,
                           <<"/System/Library/Extensions", "AMDRadeonX5000HWServices.kext">>,
                           <<"/System/Library/Extensions", "AMDRadeonX6000.kext">>,
                           <<"/System/Library/Extensions", "AMDRadeonX6000Framebuffer.kext">>,
                           <<"/System/Library/Extensions", "AMDRadeonX6000HWServices.kext">>,
                           <<"/System/Library/Extensions", "AppleIntelBDWGraphics.kext">>,
                           <<"/System/Library/Extensions", "AppleIntelBDWGraphicsFramebuffer.kext">>,
                           <<"/System/Library/Extensions", "AppleIntelCFLGraphicsFramebuffer.kext">>,
                           <<"/System/Library/Extensions", "AppleIntelHD4000Graphics.kext">>,
                           <<"/System/Library/Extensions", "AppleIntelHD5000Graphics.kext">>,
                           <<"/System/Library/Extensions", "AppleIntelICLGraphics.kext">>,
                           <<"/System/Library/Extensions", "AppleIntelICLLPGraphicsFramebuffer.kext">>,
                           <<"/System/Library/Extensions", "AppleIntelKBLGraphics.kext">>,
                           <<"/System/Library/Extensions", "AppleIntelKBLGraphicsFramebuffer.kext">>,
                           <<"/System/Library/Extensions", "AppleIntelSKLGraphics.kext">>,
                           <<"/System/Library/Extensions", "AppleIntelSKLGraphicsFramebuffer.kext">>,
                           <<"/System/Library/Extensions", "AppleIntelFramebufferAzul.kext">>,
                           <<"/System/Library/Extensions", "AppleIntelFramebufferCapri.kext">>,
                           <<"/System/Library/Extensions", "AppleParavirtGPU.kext">>,
                           <<"/System/Library/Extensions", "GeForce.kext">>,
                           <<"/System/Library/Extensions", "IOAcceleratorFamily2.kext">>,
                           <<"/System/Library/Extensions", "IOGPUFamily.kext">>,
                           <<"/System/Library/Extensions", "AppleAfterburner.kext">> >>,
      RemoveNonRoot  |-> << >>,
      Processes      |-> (IF FloatGE(os_float, macOS_12_4) THEN << <<"/usr/bin/defaults write /Library/Preferences/.GlobalPreferences.plist ShowDate -int 1", TRUE>> >> ELSE << >>)
                        \o << <<"/usr/bin/defaults write /Library/Preferences/.GlobalPreferences.plist InternalDebugUseGPUProcessForCanvasRenderingEnabled -bool false", TRUE>>,
                           <<"/usr/bin/defaults write /Library/Preferences/.GlobalPreferences.plist WebKitExperimentalUseGPUProcessForCanvasRenderingEnabled -bool false", TRUE>> >>
                        \o (IF os_major >= sonoma THEN << <<"/usr/bin/defaults write /Library/Preferences/.GlobalPreferences.plist WebKitPreferences.acceleratedDrawingEnabled -bool false", TRUE>> >> ELSE << >>)
                        \o (IF os_major >= sonoma THEN << <<"/usr/bin/defaults write /Library/Preferences/.GlobalPreferences.plist NSEnableAppKitMenus -bool false", TRUE>> >> ELSE << >>)
                        \o (IF os_major >= sonoma THEN << <<"/usr/bin/defaults write /Library/Preferences/.GlobalPreferences.plist NSZoomButtonShowMenu -bool false", TRUE>> >> ELSE << >>) ]

NonMetalIOAcceleratorCommon ==
    [ category       |-> "Graphics",
      name           |-> "Non-Metal IOAccelerator Common",
      DisplayName    |-> "",
      MinimumOS      |-> <<non_metal_os_support[1], 0>>,
      MaximumOS      |-> <<non_metal_os_support[Len(non_metal_os_support)], 99>>,
      Install        |-> << <<"/System/Library/Extensions", "IOAcceleratorFamily2.kext", "10.13.6">>,
                           <<"/System/Library/Extensions", "IOSurface.kext", "10.14.6">>,
                           <<"/System/Library/Frameworks", "IOSurface.framework", "10.14.6-" \o ToString(os_major)>>,
                           <<"/System/Library/Frameworks", "OpenCL.framework", "10.13.6">>,
                           <<"/System/Library/PrivateFrameworks", "GPUSupport.framework", "10.13.6">>,
                           <<"/System/Library/PrivateFrameworks", "IOAccelerator.framework", "10.13.6-" \o ToString(os_major)>> >>,
      InstallNonRoot |-> << >>,
      Remove         |-> << <<"/System/Library/Extensions", "AppleCameraInterface.kext">> >>,
      RemoveNonRoot  |-> << >>,
      Processes      |-> << >> ]

NonMetalCoreDisplayCommon ==
    [ category       |-> "Graphics",
      name           |-> "Non-Metal CoreDisplay Common",
      DisplayName    |-> "",
      MinimumOS      |-> <<non_metal_os_support[1], 0>>,
      MaximumOS      |-> <<non_metal_os_support[Len(non_metal_os_support)], 99>>,
      Install        |-> << <<"/System/Library/Frameworks", "CoreDisplay.framework", "10.13.6-" \o ToString(os_major)>> >>,
      InstallNonRoot |-> << >>,
      Remove         |-> << >>,
      RemoveNonRoot  |-> << >>,
      Processes      |-> << >> ]

(* "Non-Metal Enforcement" with the two list ends exchanged *)
NonMetalEnforcement_swapped_bounds ==
    [ category       |-> "Graphics",
      name           |-> "Non-Metal Enforcement",
      DisplayName    |-> "",
      MinimumOS      |-> <<non_metal_os_support[Len(non_metal_os_support)], 0>>,
      MaximumOS      |-> <<non_metal_os_support[1], 99>>,
      Install        |-> << >>,
      InstallNonRoot |-> << >>,
      Remove         |-> << >>,
      RemoveNonRoot  |-> << >>,
      Processes      |-> << <<"/usr/bin/defaults write /Library/Preferences/com.apple.CoreDisplay useMetal -boolean no", TRUE>>,
                           <<"/usr/bin/defaults write /Library/Preferences/com.apple.CoreDisplay useIOP -boolean no", TRUE>> >> ]

NonMetalEnforcement ==
    [ category       |-> "Graphics",
      name           |-> "Non-Metal Enforcement",
      DisplayName    |-> "",
      MinimumOS      |-> <<non_metal_os_support[1], 0>>,
      MaximumOS      |-> <<non_metal_os_support[Len(non_metal_os_support)], 99>>,
      Install        |-> << >>,
      InstallNonRoot |-> << >>,
      Remove         |-> << >>,
      RemoveNonRoot  |-> << >>,
      Processes      |-> << <<"/usr/bin/defaults write /Library/Preferences/com.apple.CoreDisplay useMetal -boolean no", TRUE>>,
                           <<"/usr/bin/defaults write /Library/Preferences/com.apple.CoreDisplay useIOP -boolean no", TRUE>> >> ]

RevertNonMetalColorSyncWorkaround ==
    [ category       |-> "Graphics",
      name           |-> "Revert Non-Metal ColorSync Workaround",
      DisplayName    |-> "",
      MinimumOS      |-> <<ventura, 0>>,
      MaximumOS      |-> <<ventura, 99>>,
      Install        |-> << >>,
      InstallNonRoot |-> << >>,
      Remove         |-> << <<"/System/Library/Frameworks/ColorSync.framework/Versions/A", "ColorSync">>,
                           <<"/System/Library/Frameworks/ColorSync.framework/Versions/A", "ColorSyncOld.dylib">> >>,
      RemoveNonRoot  |-> << >>,
      Processes      |-> << >> ]

MetalCommon ==
    [ category       |-> "Graphics",
      name           |-> "Metal Common",
      DisplayName    |-> "",
      MinimumOS      |-> <<ventura, 0>>,
      MaximumOS      |-> <<max_os, 99>>,
      Install        |-> << <<"/System/Library/Frameworks", "Metal.framework", "12.5">>,
                           <<"/System/Library/Frameworks", "MetalPerformanceShaders.framework", "12.5">> >>,
      InstallNonRoot |-> << >>,
      Remove         |-> << >>,
      RemoveNonRoot  |-> << >>,
      Processes      |-> << >> ]

RevertMetalDowngrade ==
    [ category       |-> "Graphics",
      name           |-> "Revert Metal Downgrade",
      DisplayName    |-> "",
      MinimumOS      |-> <<ventura, 0>>,
      MaximumOS      |-> <<ventura, 99>>,
      Install        |-> << >>,
      InstallNonRoot |-> << >>,
      Remove         |-> << <<"/System/Library/Frameworks/Metal.framework/Versions/A/", "Metal">>,
                           <<"/System/Library/Frameworks/Metal.framework/Versions/A/", "MetalOld.dylib">>,
                           <<"/System/Library/Frameworks/MetalPerformanceShaders.framework/Versions/A/Frameworks/MPSCore.framework/Versions/A", "MPSCore">> >>,
      RemoveNonRoot  |-> << >>,
      Processes      |-> << >> ]

WebKitMontereyCommon ==
    [ category       |-> "Graphics",
      name           |-> "WebKit Monterey Common",
      DisplayName    |-> "",
      MinimumOS      |-> <<monterey, 0>>,
      MaximumOS      |-> <<monterey, 99>>,
      Install        |-> << <<"/System/Library/Frameworks", "WebKit.framework", "11.6">> >>,
      InstallNonRoot |-> << <<"/Library/Apple/System/Library/StagedFrameworks/Safari", "WebKit.framework", "11.6">> >>,
      Remove         |-> << >>,
      RemoveNonRoot  |-> << >>,
      Processes      |-> << >> ]

Metal3802Common ==
    [ category       |-> "Graphics",
      name           |-> "Metal 3802 Common",
      DisplayName    |-> "",
      MinimumOS      |-> <<ventura, 0>>,
      MaximumOS      |-> <<max_os, 99>>,
      Install        |-> << <<"/System/Library/Frameworks", "Metal.framework", "12.5-3802-" \o ToString(os_major)>>,
                           <<"/System/Library/PrivateFrameworks", "MTLCompiler.framework", "12.5-3802">>,
                           <<"/System/Library/PrivateFrameworks", "GPUCompiler.framework", "12.5-3802">>,
                           <<"/System/Library/Sandbox/Profiles", "com.apple.mtlcompilerservice.sb", "12.5-3802">> >>,
      InstallNonRoot |-> << >>,
      Remove         |-> << >>,
      RemoveNonRoot  |-> << >>,
      Processes      |-> << >> ]

(* the 14.2 Beta 1 compilers installed from 14.0 on *)
Metal3802CommonExtended_compilers_on_all_of_sonoma ==
    [ category       |-> "Graphics",
      name           |-> "Metal 3802 Common Extended",
      DisplayName    |-> "",
      MinimumOS      |-> <<ventura, 4>>,
      MaximumOS      |-> <<max_os, 99>>,
      Install        |-> << <<"/System/Library/Frameworks", "Metal.framework", "13.2.1-" \o ToString(os_major)>> >>
                        \o (IF os_major >= sonoma THEN << <<"/System/Library/Frameworks", "CoreImage.framework", "14.0 Beta 3">> >> ELSE << >>)
                        \o (IF os_major = ventura THEN << <<"/System/Library/PrivateFrameworks", "MTLCompiler.framework", "13.2.1">> >> ELSE << >>)
                        \o (IF os_major = ventura THEN << <<"/System/Library/PrivateFrameworks", "GPUCompiler.framework", "13.2.1">> >> ELSE << >>)
                        \o << <<"/System/Library/PrivateFrameworks", "RenderBox.framework", IF os_major = ventura THEN "13.2.1-3802" ELSE "14.0-3802">> >>
                        \o (IF os_major >= sonoma THEN << <<"/System/Library/PrivateFrameworks", "MTLCompiler.framework", "14.2 Beta 1">> >> ELSE << >>)
                        \o (IF os_major >= sonoma THEN << <<"/System/Library/PrivateFrameworks", "GPUCompiler.framework", "14.2 Beta 1">> >> ELSE << >>),
      InstallNonRoot |-> << >>,
      Remove         |-> << >>,
      RemoveNonRoot  |-> << >>,
      Processes      |-> << >> ]

Metal3802CommonExtended ==
    [ category       |-> "Graphics",
      name           |-> "Metal 3802 Common Extended",
      DisplayName    |-> "",
      MinimumOS      |-> <<ventura, 4>>,
      MaximumOS      |-> <<max_os, 99>>,
      Install        |-> << <<"/System/Library/Frameworks", "Metal.framework", "13.2.1-" \o ToString(os_major)>> >>
                        \o (IF os_major >= sonoma THEN << <<"/System/Library/Frameworks", "CoreImage.framework", "14.0 Beta 3">> >> ELSE << >>)
                        \o (IF os_major = ventura THEN << <<"/System/Library/PrivateFrameworks", "MTLCompiler.framework", "13.2.1">> >> ELSE << >>)
                        \o (IF os_major = ventura THEN << <<"/System/Library/PrivateFrameworks", "GPUCompiler.framework", "13.2.1">> >> ELSE << >>)
                        \o << <<"/System/Library/PrivateFrameworks", "RenderBox.framework", IF os_major = ventura THEN "13.2.1-3802" ELSE "14.0-3802">> >>
                        \o (IF FloatGE(os_float, macOS_14_2) THEN << <<"/System/Library/PrivateFrameworks", "MTLCompiler.framework", "14.2 Beta 1">> >> ELSE << >>)
                        \o (IF FloatGE(os_float, macOS_14_2) THEN << <<"/System/Library/PrivateFrameworks", "GPUCompiler.framework", "14.2 Beta 1">> >> ELSE << >>),
      InstallNonRoot |-> << >>,
      Remove         |-> << >>,
      RemoveNonRoot  |-> << >>,
      Processes      |-> << >> ]

RevertGVADowngrade ==
    [ category       |-> "Graphics",
      name           |-> "Revert GVA Downgrade",
      DisplayName    |-> "",
      MinimumOS      |-> <<ventura, 0>>,
      MaximumOS      |-> <<max_os, 99>>,
      Install        |-> << >>,
      InstallNonRoot |-> << >>,
      Remove         |-> << <<"/System/Library/PrivateFrameworks/AppleGVA.framework/Versions/A/", "AppleGVA">>,
                           <<"/System/Library/PrivateFrameworks/AppleGVACore.framework/Versions/A/", "AppleGVACore">> >>,
      RemoveNonRoot  |-> << >>,
      Processes      |-> << >> ]

CatalinaGVA ==
    [ category       |-> "Graphics",
      name           |-> "Catalina GVA",
      DisplayName    |-> "",
      MinimumOS      |-> <<monterey, 0>>,
      MaximumOS      |-> <<max_os, 99>>,
      Install        |-> << <<"/System/Library/PrivateFrameworks", "AppleGVA.framework", "11.7.10">>,
                           <<"/System/Library/PrivateFrameworks", "AppleGVACore.framework", "11.7.10">> >>,
      InstallNonRoot |-> << >>,
      Remove         |-> << >>,
      RemoveNonRoot  |-> << >>,
      Processes      |-> << >> ]

MontereyGVA ==
    [ category       |-> "Graphics",
      name           |-> "Monterey GVA",
      DisplayName    |-> "",
      MinimumOS      |-> <<ventura, 0>>,
      MaximumOS      |-> <<max_os, 99>>,
      Install        |-> << <<"/System/Library/PrivateFrameworks", "AppleGVA.framework", "12.5">>,
                           <<"/System/Library/PrivateFrameworks", "AppleGVACore.framework", "12.5">> >>,
      InstallNonRoot |-> << >>,
      Remove         |-> << >>,
      RemoveNonRoot  |-> << >>,
      Processes      |-> << >> ]

HighSierraGVA ==
    [ category       |-> "Graphics",
      name           |-> "High Sierra GVA",
      DisplayName    |-> "",
      MinimumOS      |-> <<non_metal_os_support[1], 0>>,
      MaximumOS      |-> <<max_os, 99>>,
      Install        |-> << <<"/System/Library/PrivateFrameworks", "AppleGVA.framework", "10.13.6">>,
                           <<"/System/Library/PrivateFrameworks", "AppleGVACore.framework", "10.15.7">> >>,
      InstallNonRoot |-> << >>,
      Remove         |-> << >>,
      RemoveNonRoot  |-> << >>,
      Processes      |-> << >> ]

BigSurOpenCL ==
    [ category       |-> "Graphics",
      name           |-> "Big Sur OpenCL",
      DisplayName    |-> "",
      MinimumOS      |-> <<monterey, 0>>,
      MaximumOS      |-> <<max_os, 99>>,
      Install        |-> << <<"/System/Library/Frameworks", "OpenCL.framework", "11.6">> >>,
      InstallNonRoot |-> << >>,
      Remove         |-> << >>,
      RemoveNonRoot  |-> << >>,
      Processes      |-> << >> ]

MontereyOpenCL ==
    [ category       |-> "Graphics",
      name           |-> "Monterey OpenCL",
      DisplayName    |-> "",
      MinimumOS      |-> <<ventura, 0>>,
      MaximumOS      |-> <<max_os, 99>>,
      Install        |-> << <<"/System/Library/Frameworks", "OpenCL.framework", "12.5">> >>,
      InstallNonRoot |-> << >>,
      Remove         |-> << >>,
      RemoveNonRoot  |-> << >>,
      Processes      |-> << >> ]

AMDOpenCL ==
    [ category       |-> "Graphics",
      name           |-> "AMD OpenCL",
      DisplayName    |-> "",
      MinimumOS      |-> <<ventura, 0>>,
      MaximumOS      |-> <<max_os, 99>>,
      Install        |-> << <<"/System/Library/Frameworks", "OpenCL.framework", "12.5 non-AVX2.0">>,
                           <<"/System/Library/Frameworks", "OpenGL.framework", "12.5 non-AVX2.0">> >>,
      InstallNonRoot |-> << >>,
      Remove         |-> << >>,
      RemoveNonRoot  |-> << >>,
      Processes      |-> << >> ]

NvidiaTesla ==
    [ category       |-> "Graphics",
      name           |-> "Nvidia Tesla",
      DisplayName    |-> "Graphics: Nvidia Tesla",
      MinimumOS      |-> <<mojave, 0>>,
      MaximumOS      |-> <<max_os, 99>>,
      Install        |-> << <<"/System/Library/Extensions", "GeForceGA.bundle", "10.13.6">>,
                           <<"/System/Library/Extensions", "GeForceTesla.kext", "10.13.6">>,
                           <<"/System/Library/Extensions", "GeForceTeslaGLDriver.bundle", "10.13.6">>,
                           <<"/System/Library/Extensions", "GeForceTeslaVADriver.bundle", "10.13.6">>,
                           <<"/System/Library/Extensions", "NVDANV50HalTesla.kext", "10.13.6">>,
                           <<"/System/Library/Extensions", "NVDAResmanTesla.kext", "10.13.6">> >>
                        \o (IF FloatGE(os_float, macOS_12_0_B7) THEN << <<"/System/Library/Extensions", "NVDAStartup.kext", "12.0 Beta 6">> >> ELSE << >>),
      InstallNonRoot |-> << >>,
      Remove         |-> << >>,
      RemoveNonRoot  |-> << >>,
      Processes      |-> << >> ]

NvidiaKepler ==
    [ category       |-> "Graphics",
      name           |-> "Nvidia Kepler",
      DisplayName    |-> "Graphics: Nvidia Kepler",
      MinimumOS      |-> <<monterey, 1>>,
      MaximumOS      |-> <<max_os, 99>>,
      Install        |-> << <<"/System/Library/Extensions", "GeForce.kext", resolve_kepler_geforce_framebuffers>>,
                           <<"/System/Library/Extensions", "NVDAGF100Hal.kext", "12.0 Beta 6">>,
                           <<"/System/Library/Extensions", "NVDAGK100Hal.kext", "12.0 Beta 6">>,
                           <<"/System/Library/Extensions", "NVDAResman.kext", "12.0 Beta 6">>,
                           <<"/System/Library/Extensions", "NVDAStartup.kext", "12.0 Beta 6">>,
                           <<"/System/Library/Extensions", "GeForceAIRPlugin.bundle", "11.0 Beta 3">>,
                           <<"/System/Library/Extensions", "GeForceGLDriver.bundle", "11.0 Beta 3">>,
                           <<"/System/Library/Extensions", "GeForceMTLDriver.bundle", IF os_major <= monterey THEN "11.0 Beta 3" ELSE "11.0 Beta 3-22">>,
                           <<"/System/Library/Extensions", "GeForceVADriver.bundle", "12.0 Beta 6">> >>
                        \o (IF (FloatGE(os_float, macOS_12_5)) /\ (os_major < ventura) THEN << <<"/System/Library/Frameworks", "Metal.framework", "12.5 Beta 2">> >> ELSE << >>)
                        \o << <<"/System/Library/PrivateFrameworks", "GPUCompiler.framework", "11.6">> >>,
      InstallNonRoot |-> << >>,
      Remove         |-> << >>,
      RemoveNonRoot  |-> << >>,
      Processes      |-> << >> ]

NvidiaWebDrivers ==
    [ category       |-> "Graphics",
      name           |-> "Nvidia Web Drivers",
      DisplayName    |-> "Graphics: Nvidia Web Drivers",
      MinimumOS      |-> <<mojave, 0>>,
      MaximumOS      |-> <<max_os, 99>>,
      Install        |-> << <<"/System/Library/Extensions", "GeForceAIRPluginWeb.bundle", "WebDriver-387.10.10.10.40.140">>,
                           <<"/System/Library/Extensions", "GeForceGLDriverWeb.bundle", "WebDriver-387.10.10.10.40.140">>,
                           <<"/System/Library/Extensions", "GeForceMTLDriverWeb.bundle", "WebDriver-387.10.10.10.40.140">>,
                           <<"/System/Library/Extensions", "GeForceVADriverWeb.bundle", "WebDriver-387.10.10.10.40.140">>,
                           <<"/System/Library/Extensions", "GeForceTeslaGAWeb.bundle", "WebDriver-387.10.10.10.40.140">>,
                           <<"/System/Library/Extensions", "GeForceTeslaGLDriverWeb.bundle", "WebDriver-387.10.10.10.40.140">>,
                           <<"/System/Library/Extensions", "GeForceTeslaVADriverWeb.bundle", "WebDriver-387.10.10.10.40.140">> >>
                        \o (IF os_major >= monterey THEN << <<"/System/Library/PrivateFrameworks", "GPUCompiler.framework", "11.6">> >> ELSE << >>),
      InstallNonRoot |-> << <<"/Library/Extensions", "GeForceWeb.kext", "WebDriver-387.10.10.10.40.140">>,
                           <<"/Library/Extensions", "NVDAGF100HalWeb.kext", "WebDriver-387.10.10.10.40.140">>,
                           <<"/Library/Extensions", "NVDAGK100HalWeb.kext", "WebDriver-387.10.10.10.40.140">>,
                           <<"/Library/Extensions", "NVDAGM100HalWeb.kext", "WebDriver-387.10.10.10.40.140">>,
                           <<"/Library/Extensions", "NVDAGP100HalWeb.kext", "WebDriver-387.10.10.10.40.140">>,
                           <<"/Library/Extensions", "NVDAResmanWeb.kext", "WebDriver-387.10.10.10.40.140">>,
                           <<"/Library/Extensions", "NVDAStartupWeb.kext", "WebDriver-387.10.10.10.40.140">>,
                           <<"/Library/Extensions", "GeForceTeslaWeb.kext", "WebDriver-387.10.10.10.40.140">>,
                           <<"/Library/Extensions", "NVDANV50HalTeslaWeb.kext", "WebDriver-387.10.10.10.40.140">>,
                           <<"/Library/Extensions", "NVDAResmanTeslaWeb.kext", "WebDriver-387.10.10.10.40.140">> >>,
      Remove         |-> << <<"/System/Library/Extensions", "NVDAStartup.kext">> >>,
      RemoveNonRoot  |-> << >>,
      Processes      |-> << >> ]

AMDTeraScaleCommon ==
    [ category       |-> "Graphics",
      name           |-> "AMD TeraScale Common",
      DisplayName    |-> "",
      MinimumOS      |-> <<mojave, 0>>,
      MaximumOS      |-> <<max_os, 99>>,
      Install        |-> << <<"/System/Library/Extensions", "AMDFramebuffer.kext", "10.13.6">>,
                           <<"/System/Library/Extensions", "AMDLegacyFramebuffer.kext", "10.13.6">>,
                           <<"/System/Library/Extensions", "AMDLegacySupport.kext", "10.13.6">>,
                           <<"/System/Library/Extensions", "AMDShared.bundle", "10.13.6">>,
                           <<"/System/Library/Extensions", "AMDSupport.kext", "10.13.6">> >>,
      InstallNonRoot |-> << >>,
      Remove         |-> << <<"/System/Library/Extensions", "AMD7000Controller.kext">>,
                           <<"/System/Library/Extensions", "AMD8000Controller.kext">>,
                           <<"/System/Library/Extensions", "AMD9000Controller.kext">>,
                           <<"/System/Library/Extensions", "AMD9500Controller.kext">>,
                           <<"/System/Library/Extensions", "AMD10000Controller.kext">> >>,
      RemoveNonRoot  |-> << >>,
      Processes      |-> << >> ]

AMDTeraScale1 ==
    [ category       |-> "Graphics",
      name           |-> "AMD TeraScale 1",
      DisplayName    |-> "Graphics: AMD TeraScale 1",
      MinimumOS      |-> <<mojave, 0>>,
      MaximumOS      |-> <<max_os, 99>>,
      Install        |-> << <<"/System/Library/Extensions", "AMD2400Controller.kext", "10.13.6">>,
                           <<"/System/Library/Extensions", "AMD2600Controller.kext", "10.13.6">>,
                           <<"/System/Library/Extensions", "AMD3800Controller.kext", "10.13.6">>,
                           <<"/System/Library/Extensions", "AMD4600Controller.kext", "10.13.6">>,
                           <<"/System/Library/Extensions", "AMD4800Controller.kext", "10.13.6">>,
                           <<"/System/Library/Extensions", "ATIRadeonX2000.kext", IF os_major < ventura THEN "10.13.6" ELSE "10.13.6 TS1">>,
                           <<"/System/Library/Extensions", "ATIRadeonX2000GA.plugin", "10.13.6">>,
                           <<"/System/Library/Extensions", "ATIRadeonX2000GLDriver.bundle", "10.13.6">>,
                           <<"/System/Library/Extensions", "ATIRadeonX2000VADriver.bundle", "10.13.6">> >>,
      InstallNonRoot |-> << >>,
      Remove         |-> << <<"/System/Library/Extensions", "AMD5000Controller.kext">>,
                           <<"/System/Library/Extensions", "AMD6000Controller.kext">>,
                           <<"/System/Library/Extensions", "AMDRadeonVADriver.bundle">>,
                           <<"/System/Library/Extensions", "AMDRadeonVADriver2.bundle">>,
                           <<"/System/Library/Extensions", "AMDRadeonX3000.kext">>,
                           <<"/System/Library/Extensions", "AMDRadeonX3000GLDriver.bundle">> >>,
      RemoveNonRoot  |-> << >>,
      Processes      |-> << >> ]

AMDTeraScale2 ==
    [ category       |-> "Graphics",
      name           |-> "AMD TeraScale 2",
      DisplayName    |-> "Graphics: AMD TeraScale 2",
      MinimumOS      |-> <<mojave, 0>>,
      MaximumOS      |-> <<max_os, 99>>,
      Install        |-> << <<"/System/Library/Extensions", "AMD5000Controller.kext", "10.13.6">>,
                           <<"/System/Library/Extensions", "AMD6000Controller.kext", "10.13.6">>,
                           <<"/System/Library/Extensions", "AMDRadeonVADriver.bundle", "10.13.6">>,
                           <<"/System/Library/Extensions", "AMDRadeonVADriver2.bundle", "10.13.6">>,
                           <<"/System/Library/Extensions", "AMDRadeonX3000.kext", "10.13.6">>,
                           <<"/System/Library/Extensions", "AMDRadeonX3000GLDriver.bundle", "10.13.6">> >>,
      InstallNonRoot |-> << >>,
      Remove         |-> << >>,
      RemoveNonRoot  |-> << >>,
      Processes      |-> << >> ]

AMDLegacyGCN ==
    [ category       |-> "Graphics",
      name           |-> "AMD Legacy GCN",
      DisplayName    |-> "Graphics: AMD Legacy GCN",
      MinimumOS      |-> <<ventura, 0>>,
      MaximumOS      |-> <<max_os, 99>>,
      Install        |-> << <<"/System/Library/Extensions", "AMD7000Controller.kext", "12.5">>,
                           <<"/System/Library/Extensions", "AMD8000Controller.kext", "12.5">>,
                           <<"/System/Library/Extensions", "AMD9000Controller.kext", "12.5">>,
                           <<"/System/Library/Extensions", "AMD9500Controller.kext", "12.5">>,
                           <<"/System/Library/Extensions", "AMD10000Controller.kext", "12.5">>,
                           <<"/System/Library/Extensions", "AMDRadeonX4000.kext", resolve_monterey_framebuffers>>,
                           <<"/System/Library/Extensions", "AMDRadeonX4000HWServices.kext", "12.5">>,
                           <<"/System/Library/Extensions", "AMDFramebuffer.kext", IF FloatLT(os_float, macOS_13_3) THEN "12.5" ELSE "12.5-GCN">>,
                           <<"/System/Library/Extensions", "AMDSupport.kext", "12.5">>,
                           <<"/System/Library/Extensions", "AMDRadeonVADriver.bundle", "12.5">>,
                           <<"/System/Library/Extensions", "AMDRadeonVADriver2.bundle", "12.5">>,
                           <<"/System/Library/Extensions", "AMDRadeonX4000GLDriver.bundle", "12.5">>,
                           <<"/System/Library/Extensions", "AMDMTLBronzeDriver.bundle", "12.5">>,
                           <<"/System/Library/Extensions", "AMDShared.bundle", "12.5">> >>,
      InstallNonRoot |-> << >>,
      Remove         |-> << >>,
      RemoveNonRoot  |-> << >>,
      Processes      |-> << >> ]

AMDLegacyGCNv2 ==
    [ category       |-> "Graphics",
      name           |-> "AMD Legacy GCN v2",
      DisplayName    |-> "Graphics: AMD Legacy GCN (2017)",
      MinimumOS      |-> <<sonoma, 0>>,
      MaximumOS      |-> <<max_os, 99>>,
      Install        |-> << <<"/System/Library/Extensions", "AMD9500Controller.kext", "13.5.2">>,
                           <<"/System/Library/Extensions", "AMD10000Controller.kext", "13.5.2">>,
                           <<"/System/Library/Extensions", "AMDRadeonX4000.kext", "13.5.2">>,
                           <<"/System/Library/Extensions", "AMDRadeonX4000HWServices.kext", "13.5.2">>,
                           <<"/System/Library/Extensions", "AMDFramebuffer.kext", "13.5.2">>,
                           <<"/System/Library/Extensions", "AMDSupport.kext", "13.5.2">>,
                           <<"/System/Library/Extensions", "AMDRadeonVADriver.bundle", "13.5.2">>,
                           <<"/System/Library/Extensions", "AMDRadeonVADriver2.bundle", "13.5.2">>,
                           <<"/System/Library/Extensions", "AMDRadeonX4000GLDriver.bundle", "13.5.2">>,
                           <<"/System/Library/Extensions", "AMDMTLBronzeDriver.bundle", "13.5.2">>,
                           <<"/System/Library/Extensions", "AMDShared.bundle", "13.5.2">> >>,
      InstallNonRoot |-> << >>,
      Remove         |-> << >>,
      RemoveNonRoot  |-> << >>,
      Processes      |-> << >> ]

AMDLegacyPolaris ==
    [ category       |-> "Graphics",
      name           |-> "AMD Legacy Polaris",
      DisplayName    |-> "Graphics: AMD Legacy Polaris",
      MinimumOS      |-> <<ventura, 0>>,
      MaximumOS      |-> <<max_os, 99>>,
      Install        |-> << <<"/System/Library/Extensions", "AMDRadeonX4000.kext", resolve_monterey_framebuffers>>,
                           <<"/System/Library/Extensions", "AMDRadeonX4000HWServices.kext", "12.5">>,
                           <<"/System/Library/Extensions", "AMDRadeonVADriver2.bundle", "12.5">>,
                           <<"/System/Library/Extensions", "AMDRadeonX4000GLDriver.bundle", "12.5">>,
                           <<"/System/Library/Extensions", "AMDMTLBronzeDriver.bundle", "12.5">>,
                           <<"/System/Library/Extensions", "AMDShared.bundle", "12.5">> >>,
      InstallNonRoot |-> << >>,
      Remove         |-> << >>,
      RemoveNonRoot  |-> << >>,
      Processes      |-> << >> ]

AMDLegacyVega ==
    [ category       |-> "Graphics",
      name           |-> "AMD Legacy Vega",
      DisplayName    |-> "Graphics: AMD Legacy Vega",
      MinimumOS      |-> <<ventura, 0>>,
      MaximumOS      |-> <<max_os, 99>>,
      Install        |-> << <<"/System/Library/Extensions", "AMDRadeonX5000.kext", resolve_monterey_framebuffers>>,
                           <<"/System/Library/Extensions", "AMDRadeonVADriver2.bundle", "12.5">>,
                           <<"/System/Library/Extensions", "AMDRadeonX5000GLDriver.bundle", "12.5">>,
                           <<"/System/Library/Extensions", "AMDRadeonX5000MTLDriver.bundle", "12.5">>,
                           <<"/System/Library/Extensions", "AMDRadeonX5000Shared.bundle", "12.5">>,
                           <<"/System/Library/Extensions", "AMDShared.bundle", "12.5">> >>,
      InstallNonRoot |-> << >>,
      Remove         |-> << >>,
      RemoveNonRoot  |-> << >>,
      Processes      |-> << >> ]

AMDLegacyVegaExtended ==
    [ category       |-> "Graphics",
      name           |-> "AMD Legacy Vega Extended",
      DisplayName    |-> "",
      MinimumOS      |-> <<ventura, 0>>,
      MaximumOS      |-> <<max_os, 99>>,
      Install        |-> << <<"/System/Library/Extensions", "AMDRadeonX5000HWServices.kext", "12.5">> >>,
      InstallNonRoot |-> << >>,
      Remove         |-> << >>,
      RemoveNonRoot  |-> << >>,
      Processes      |-> << >> ]

IntelIronlake ==
    [ category       |-> "Graphics",
      name           |-> "Intel Ironlake",
      DisplayName    |-> "Graphics: Intel Ironlake",
      MinimumOS      |-> <<mojave, 0>>,
      MaximumOS      |-> <<max_os, 99>>,
      Install        |-> << <<"/System/Library/Extensions", "AppleIntelHDGraphics.kext", "10.13.6">>,
                           <<"/System/Library/Extensions", "AppleIntelHDGraphicsFB.kext", "10.13.6">>,
                           <<"/System/Library/Extensions", "AppleIntelHDGraphicsGA.plugin", "10.13.6">>,
                           <<"/System/Library/Extensions", "AppleIntelHDGraphicsGLDriver.bundle", "10.13.6">>,
                           <<"/System/Library/Extensions", "AppleIntelHDGraphicsVADriver.bundle", "10.13.6">> >>,
      InstallNonRoot |-> << >>,
      Remove         |-> << >>,
      RemoveNonRoot  |-> << >>,
      Processes      |-> << >> ]

IntelSandyBridge ==
    [ category       |-> "Graphics",
      name           |-> "Intel Sandy Bridge",
      DisplayName    |-> "Graphics: Intel Sandy Bridge",
      MinimumOS      |-> <<mojave, 0>>,
      MaximumOS      |-> <<max_os, 99>>,
      Install        |-> << <<"/System/Library/Extensions", "AppleIntelHD3000Graphics.kext", "10.13.6">>,
                           <<"/System/Library/Extensions", "AppleIntelHD3000GraphicsGA.plugin", "10.13.6">>,
                           <<"/System/Library/Extensions", "AppleIntelHD3000GraphicsGLDriver.bundle", "10.13.6">>,
                           <<"/System/Library/Extensions", "AppleIntelHD3000GraphicsVADriver.bundle", "10.13.6">>,
                           <<"/System/Library/Extensions", "AppleIntelSNBGraphicsFB.kext", "10.13.6">>,
                           <<"/System/Library/Extensions", "AppleIntelSNBVA.bundle", "10.13.6">> >>,
      InstallNonRoot |-> << >>,
      Remove         |-> << >>,
      RemoveNonRoot  |-> << >>,
      Processes      |-> << >> ]

IntelIvyBridge ==
    [ category       |-> "Graphics",
      name           |-> "Intel Ivy Bridge",
      DisplayName    |-> "Graphics: Intel Ivy Bridge",
      MinimumOS      |-> <<monterey, 0>>,
      MaximumOS      |-> <<max_os, 99>>,
      Install        |-> << <<"/System/Library/Extensions", "AppleIntelHD4000GraphicsGLDriver.bundle", "11.7.10">>,
                           <<"/System/Library/Extensions", "AppleIntelHD4000GraphicsMTLDriver.bundle", IF os_major < ventura THEN "11.7.10" ELSE "11.7.10-22">>,
                           <<"/System/Library/Extensions", "AppleIntelHD4000GraphicsVADriver.bundle", "11.7.10">>,
                           <<"/System/Library/Extensions", "AppleIntelFramebufferCapri.kext", resolve_ivy_bridge_framebuffers>>,
                           <<"/System/Library/Extensions", "AppleIntelHD4000Graphics.kext", resolve_ivy_bridge_framebuffers>>,
                           <<"/System/Library/Extensions", "AppleIntelIVBVA.bundle", "11.7.10">>,
                           <<"/System/Library/Extensions", "AppleIntelGraphicsShared.bundle", "11.7.10">> >>,
      InstallNonRoot |-> << >>,
      Remove         |-> << >>,
      RemoveNonRoot  |-> << >>,
      Processes      |-> << >> ]

IntelHaswell ==
    [ category       |-> "Graphics",
      name           |-> "Intel Haswell",
      DisplayName    |-> "Graphics: Intel Haswell",
      MinimumOS      |-> <<ventura, 0>>,
      MaximumOS      |-> <<max_os, 99>>,
      Install        |-> << <<"/System/Library/Extensions", "AppleIntelFramebufferAzul.kext", resolve_monterey_framebuffers>>,
                           <<"/System/Library/Extensions", "AppleIntelHD5000Graphics.kext", resolve_monterey_framebuffers>>,
                           <<"/System/Library/Extensions", "AppleIntelHD5000GraphicsGLDriver.bundle", "12.5">>,
                           <<"/System/Library/Extensions", "AppleIntelHD5000GraphicsMTLDriver.bundle", "12.5">>,
                           <<"/System/Library/Extensions", "AppleIntelHD5000GraphicsVADriver.bundle", "12.5">>,
                           <<"/System/Library/Extensions", "AppleIntelHSWVA.bundle", "12.5">>,
                           <<"/System/Library/Extensions", "AppleIntelGraphicsShared.bundle", "12.5">> >>,
      InstallNonRoot |-> << >>,
      Remove         |-> << >>,
      RemoveNonRoot  |-> << >>,
      Processes      |-> << >> ]

IntelBroadwell ==
    [ category       |-> "Graphics",
      name           |-> "Intel Broadwell",
      DisplayName    |-> "Graphics: Intel Broadwell",
      MinimumOS      |-> <<ventura, 0>>,
      MaximumOS      |-> <<max_os, 99>>,
      Install        |-> << <<"/System/Library/Extensions", "AppleIntelBDWGraphics.kext", resolve_monterey_framebuffers>>,
                           <<"/System/Library/Extensions", "AppleIntelBDWGraphicsFramebuffer.kext", resolve_monterey_framebuffers>>,
                           <<"/System/Library/Extensions", "AppleIntelBDWGraphicsGLDriver.bundle", "12.5">>,
                           <<"/System/Library/Extensions", "AppleIntelBDWGraphicsMTLDriver.bundle", "12.5-22">>,
                           <<"/System/Library/Extensions", "AppleIntelBDWGraphicsVADriver.bundle", "12.5">>,
                           <<"/System/Library/Extensions", "AppleIntelBDWGraphicsVAME.bundle", "12.5">>,
                           <<"/System/Library/Extensions", "AppleIntelGraphicsShared.bundle", "12.5">> >>,
      InstallNonRoot |-> << >>,
      Remove         |-> << >>,
      RemoveNonRoot  |-> << >>,
      Processes      |-> << >> ]

IntelSkylake ==
    [ category       |-> "Graphics",
      name           |-> "Intel Skylake",
      DisplayName    |-> "Graphics: Intel Skylake",
      MinimumOS      |-> <<ventura, 0>>,
      MaximumOS      |-> <<max_os, 99>>,
      Install        |-> << <<"/System/Library/Extensions", "AppleIntelSKLGraphics.kext", resolve_monterey_framebuffers>>,
                           <<"/System/Library/Extensions", "AppleIntelSKLGraphicsFramebuffer.kext", resolve_monterey_framebuffers>>,
                           <<"/System/Library/Extensions", "AppleIntelSKLGraphicsGLDriver.bundle", "12.5">>,
                           <<"/System/Library/Extensions", "AppleIntelSKLGraphicsMTLDriver.bundle", "12.5">>,
                           <<"/System/Library/Extensions", "AppleIntelSKLGraphicsVADriver.bundle", "12.5">>,
                           <<"/System/Library/Extensions", "AppleIntelSKLGraphicsVAME.bundle", "12.5">>,
                           <<"/System/Library/Extensions", "AppleIntelGraphicsShared.bundle", "12.5">> >>,
      InstallNonRoot |-> << >>,
      Remove         |-> << >>,
      RemoveNonRoot  |-> << >>,
      Processes      |-> << >> ]

LegacyRealtek ==
    [ category       |-> "Audio",
      name           |-> "Legacy Realtek",
      DisplayName    |-> "Audio: Legacy Realtek",
      MinimumOS      |-> <<sierra, 0>>,
      MaximumOS      |-> <<max_os, 99>>,
      Install        |-> << <<"/System/Library/Extensions", "AppleHDA.kext", "10.11.6">>,
                           <<"/System/Library/Extensions", "IOAudioFamily.kext", "10.11.6">> >>,
      InstallNonRoot |-> << >>,
      Remove         |-> << <<"/System/Library/Extensions", "AppleVirtIO.kext">>,
                           <<"/System/Library/Extensions", "AppleVirtualGraphics.kext">>,
                           <<"/System/Library/Extensions", "AppleVirtualPlatform.kext">>,
                           <<"/System/Library/Extensions", "ApplePVPanic.kext">>,
                           <<"/System/Library/Extensions", "AppleVirtIOStorage.kext">> >>,
      RemoveNonRoot  |-> << >>,
      Processes      |-> << >> ]

LegacyNonGOP ==
    [ category       |-> "Audio",
      name           |-> "Legacy Non-GOP",
      DisplayName    |-> "Audio: Legacy non-GOP",
      MinimumOS      |-> <<mojave, 0>>,
      MaximumOS      |-> <<max_os, 99>>,
      Install        |-> << <<"/System/Library/Extensions", "AppleHDA.kext", "10.13.6">> >>,
      InstallNonRoot |-> << >>,
      Remove         |-> << >>,
      RemoveNonRoot  |-> << >>,
      Processes      |-> << >> ]

LegacyWireless ==
    [ category       |-> "Networking",
      name           |-> "Legacy Wireless",
      DisplayName    |-> "Networking: Legacy Wireless",
      MinimumOS      |-> <<monterey, 0>>,
      MaximumOS      |-> <<max_os, 99>>,
      Install        |-> << <<"/usr/libexec", "airportd", IF affected_by_cve_2024_23227 = FALSE THEN "11.7.10" ELSE "11.7.10-Sandbox">>,
                           <<"/System/Library/CoreServices", "WiFiAgent.app", "11.7.10">> >>,
      InstallNonRoot |-> (IF os_major = monterey THEN << <<"/Library/Application Support/SkyLightPlugins", "CoreWLAN.dylib", "SkyLightPlugins">> >> ELSE << >>)
                        \o (IF os_major = monterey THEN << <<"/Library/Application Support/SkyLightPlugins", "CoreWLAN.txt", "SkyLightPlugins">> >> ELSE << >>),
      Remove         |-> << >>,
      RemoveNonRoot  |-> << >>,
      Processes      |-> << >> ]

LegacyWirelessExtended ==
    [ category       |-> "Networking",
      name           |-> "Legacy Wireless Extended",
      DisplayName    |-> "",
      MinimumOS      |-> <<ventura, 0>>,
      MaximumOS      |-> <<max_os, 99>>,
      Install        |-> << <<"/usr/libexec", "wps", "12.7.2">>,
                           <<"/usr/libexec", "wifip2pd", "12.7.2">>,
                           <<"/System/Library/Frameworks", "CoreWLAN.framework", "12.7.2">>,
                           <<"/System/Library/PrivateFrameworks", "CoreWiFi.framework", "12.7.2">>,
                           <<"/System/Library/PrivateFrameworks", "IO80211.framework", "12.7.2">>,
                           <<"/System/Library/PrivateFrameworks", "WiFiPeerToPeer.framework", "12.7.2">> >>,
      InstallNonRoot |-> << >>,
      Remove         |-> << >>,
      RemoveNonRoot  |-> << >>,
      Processes      |-> << >> ]

ModernWireless ==
    [ category       |-> "Networking",
      name           |-> "Modern Wireless",
      DisplayName    |-> "Networking: Modern Wireless",
      MinimumOS      |-> <<sonoma, 0>>,
      MaximumOS      |-> <<max_os, 99>>,
      Install        |-> << <<"/usr/libexec", "airportd", "13.6.5">>,
                           <<"/usr/libexec", "wifip2pd", "13.6.5">>,
                           <<"/System/Library/Frameworks", "CoreWLAN.framework", "13.6.5-" \o ToString(os_major)>>,
                           <<"/System/Library/PrivateFrameworks", "CoreWiFi.framework", "13.6.5-" \o ToString(os_major)>>,
                           <<"/System/Library/PrivateFrameworks", "IO80211.framework", "13.6.5-" \o ToString(os_major)>>,
                           <<"/System/Library/PrivateFrameworks", "WiFiPeerToPeer.framework", "13.6.5-" \o ToString(os_major)>> >>,
      InstallNonRoot |-> << >>,
      Remove         |-> << >>,
      RemoveNonRoot  |-> << >>,
      Processes      |-> << >> ]

LegacyBacklightControl ==
    [ category       |-> "Brightness",
      name           |-> "Legacy Backlight Control",
      DisplayName    |-> "Brightness: Legacy Backlight Control",
      MinimumOS      |-> <<high_sierra, 0>>,
      MaximumOS      |-> <<max_os, 99>>,
      Install        |-> << <<"/System/Library/Extensions", "AppleBacklight.kext", "10.12.6">>,
                           <<"/System/Library/Extensions", "AppleBacklightExpert.kext", "10.12.6">>,
                           <<"/System/Library/PrivateFrameworks", "DisplayServices.framework", "10.12.6">> >>,
      InstallNonRoot |-> << >>,
      Remove         |-> << <<"/System/Library/Extensions/AppleGraphicsControl.kext/Contents/PlugIns", "AGDCBacklightControl.kext">> >>,
      RemoveNonRoot  |-> << >>,
      Processes      |-> << >> ]

LegacyGMUX ==
    [ category       |-> "Miscellaneous",
      name           |-> "Legacy GMUX",
      DisplayName    |-> "Miscellaneous: Legacy GMUX",
      MinimumOS      |-> <<high_sierra, 0>>,
      MaximumOS      |-> <<max_os, 99>>,
      Install        |-> << <<"/System/Library/Extensions/AppleGraphicsControl.kext/Contents/PlugIns", "AppleMuxControl.kext", "10.12.6">> >>,
      InstallNonRoot |-> << >>,
      Remove         |-> << <<"/System/Library/Extensions", "AppleBacklight.kext">>,
                           <<"/System/Library/Extensions/AppleGraphicsControl.kext/Contents/PlugIns", "AGDCBacklightControl.kext">>,
                           <<"/System/Library/Extensions/AppleGraphicsControl.kext/Contents/PlugIns", "AppleMuxControl.kext">> >>,
      RemoveNonRoot  |-> << >>,
      Processes      |-> << >> ]

LegacyKeyboardBacklight ==
    [ category       |-> "Miscellaneous",
      name           |-> "Legacy Keyboard Backlight",
      DisplayName    |-> "Miscellaneous: Legacy Keyboard Backlight",
      MinimumOS      |-> <<non_metal_os_support[1], 0>>,
      MaximumOS      |-> <<non_metal_os_support[Len(non_metal_os_support)], 99>>,
      Install        |-> << >>,
      InstallNonRoot |-> << >>,
      Remove         |-> << >>,
      RemoveNonRoot  |-> << >>,
      Processes      |-> << <<"/usr/bin/defaults write /Library/Preferences/.GlobalPreferences.plist Moraea_BacklightHack -bool true", TRUE>> >> ]

LegacyUSB11 ==
    [ category       |-> "Miscellaneous",
      name           |-> "Legacy USB 1.1",
      DisplayName    |-> "Miscellaneous: Legacy USB 1.1",
      MinimumOS      |-> <<ventura, 0>>,
      MaximumOS      |-> <<max_os, 99>>,
      Install        |-> << <<"/System/Library/Extensions", "IOUSBHostFamily.kext", IF FloatLT(os_float, macOS_14_4) THEN "12.6.2" ELSE "12.6.2-23.4">> >>,
      InstallNonRoot |-> << >>,
      Remove         |-> << >>,
      RemoveNonRoot  |-> << >>,
      Processes      |-> << >> ]

LegacyUSB11Extended ==
    [ category       |-> "Miscellaneous",
      name           |-> "Legacy USB 1.1 Extended",
      DisplayName    |-> "",
      MinimumOS      |-> <<sonoma, 1>>,
      MaximumOS      |-> <<max_os, 99>>,
      Install        |-> << <<"/System/Library/Extensions/IOUSBHostFamily.kext/Contents/PlugIns", "AppleUSBOHCI.kext", "12.6.2-USB">>,
                           <<"/System/Library/Extensions/IOUSBHostFamily.kext/Contents/PlugIns", "AppleUSBOHCIPCI.kext", "12.6.2-USB">>,
                           <<"/System/Library/Extensions/IOUSBHostFamily.kext/Contents/PlugIns", "AppleUSBUHCI.kext", "12.6.2-USB">>,
                           <<"/System/Library/Extensions/IOUSBHostFamily.kext/Contents/PlugIns", "AppleUSBUHCIPCI.kext", "12.6.2-USB">> >>,
      InstallNonRoot |-> << >>,
      Remove         |-> << >>,
      RemoveNonRoot  |-> << >>,
      Processes      |-> << >> ]

PCIeFaceTimeCamera ==
    [ category       |-> "Miscellaneous",
      name           |-> "PCIe FaceTime Camera",
      DisplayName    |-> "Miscellaneous: PCIe FaceTime Camera",
      MinimumOS      |-> <<sonoma, 0>>,
      MaximumOS      |-> <<max_os, 99>>,
      Install        |-> << <<"/System/Library/Frameworks/CoreMediaIO.framework/Versions/A/Resources", "AppleCamera.plugin", "14.0 Beta 1">>,
                           <<"/System/Library/LaunchDaemons", "com.apple.cmio.AppleCameraAssistant.plist", "14.0 Beta 1">> >>,
      InstallNonRoot |-> << >>,
      Remove         |-> << >>,
      RemoveNonRoot  |-> << <<"/Library/CoreMediaIO/Plug-Ins/DAL", "AppleCamera.plugin">>,
                           <<"/Library/LaunchDaemons", "com.apple.cmio.AppleCameraAssistant.plist">> >>,
      Processes      |-> << >> ]

T1SecurityChip ==
    [ category       |-> "Miscellaneous",
      name           |-> "T1 Security Chip",
      DisplayName    |-> "Miscellaneous: T1 Security Chip",
      MinimumOS      |-> <<sonoma, 0>>,
      MaximumOS      |-> <<max_os, 99>>,
      Install        |-> << <<"/System/Library/Frameworks", "LocalAuthentication.framework", "13.6-" \o ToString(os_major)>>,
                           <<"/System/Library/PrivateFrameworks", "EmbeddedOSInstall.framework", "13.6">>,
                           <<"/usr/lib", "libNFC_Comet.dylib", "13.6">>,
                           <<"/usr/lib", "libNFC_HAL.dylib", "13.6">>,
                           <<"/usr/lib", "libnfshared.dylib", "13.6">>,
                           <<"/usr/lib", "libnfshared.dylibOld.dylib", "13.6">>,
                           <<"/usr/lib", "libnfstorage.dylib", "13.6">>,
                           <<"/usr/lib", "libnfrestore.dylib", "13.6">>,
                           <<"/usr/lib", "libPN548_API.dylib", "13.6">>,
                           <<"/usr/libexec", "biometrickitd", "13.6">>,
                           <<"/usr/libexec", "nfcd", "13.6">>,
                           <<"/usr/libexec", "nfrestore_service", "13.6">>,
                           <<"/usr/standalone/firmware/nfrestore/firmware/fw", "PN549_FW_02_01_5A_rev88207.bin", "13.6">>,
                           <<"/usr/standalone/firmware/nfrestore/firmware/fw", "SN100V_FW_A3_01_01_81_rev127208.bin", "13.6">>,
                           <<"/usr/standalone/firmware/nfrestore/firmware/fw", "SN200V_FW_B1_02_01_86_rev127266.bin", "13.6">>,
                           <<"/usr/standalone/firmware/nfrestore/firmware/fw", "SN300V_FW_B0_02_01_22_rev129172.bin", "13.6">> >>,
      InstallNonRoot |-> << >>,
      Remove         |-> << >>,
      RemoveNonRoot  |-> << >>,
      Processes      |-> << >> ]

(* the catalog with "Non-Metal IOAccelerator Common" and "Modern Wireless" *)
(* declared before "Non-Metal Common" and "Legacy Wireless"                *)
generate_sys_patch_dict_reordered ==
    <<
       NonMetalIOAcceleratorCommon, NonMetalCommon, NonMetalCoreDisplayCommon, NonMetalEnforcement,
       RevertNonMetalColorSyncWorkaround, MetalCommon, RevertMetalDowngrade, WebKitMontereyCommon,
       Metal3802Common, Metal3802CommonExtended, RevertGVADowngrade, CatalinaGVA,
       MontereyGVA, HighSierraGVA, BigSurOpenCL, MontereyOpenCL,
       AMDOpenCL, NvidiaTesla, NvidiaKepler, NvidiaWebDrivers,
       AMDTeraScaleCommon, AMDTeraScale1, AMDTeraScale2, AMDLegacyGCN,
       AMDLegacyGCNv2, AMDLegacyPolaris, AMDLegacyVega, AMDLegacyVegaExtended,
       IntelIronlake, IntelSandyBridge, IntelIvyBridge, IntelHaswell,
       IntelBroadwell, IntelSkylake, LegacyRealtek, LegacyNonGOP,
       ModernWireless, LegacyWireless, LegacyWirelessExtended, LegacyBacklightControl,
       LegacyGMUX, LegacyKeyboardBacklight, LegacyUSB11, LegacyUSB11Extended,
       PCIeFaceTimeCamera, T1SecurityChip
    >>

generate_sys_patch_dict ==
    <<
       NonMetalCommon, NonMetalIOAcceleratorCommon, NonMetalCoreDisplayCommon, NonMetalEnforcement,
       RevertNonMetalColorSyncWorkaround, MetalCommon, RevertMetalDowngrade, WebKitMontereyCommon,
       Metal3802Common, Metal3802CommonExtended, RevertGVADowngrade, CatalinaGVA,
       MontereyGVA, HighSierraGVA, BigSurOpenCL, MontereyOpenCL,
       AMDOpenCL, NvidiaTesla, NvidiaKepler, NvidiaWebDrivers,
       AMDTeraScaleCommon, AMDTeraScale1, AMDTeraScale2, AMDLegacyGCN,
       AMDLegacyGCNv2, AMDLegacyPolaris, AMDLegacyVega, AMDLegacyVegaExtended,
       IntelIronlake, IntelSandyBridge, IntelIvyBridge, IntelHaswell,
       IntelBroadwell, IntelSkylake, LegacyRealtek, LegacyNonGOP,
       LegacyWireless, LegacyWirelessExtended, ModernWireless, LegacyBacklightControl,
       LegacyGMUX, LegacyKeyboardBacklight, LegacyUSB11, LegacyUSB11Extended,
       PCIeFaceTimeCamera, T1SecurityChip
    >>

-----------------------------------------------------------------------------
(* SystemPatchDictionary.__init__: the CVE flag, then the catalog.  The     *)
(* result is [raised, exception, affected]; the catalog is read from       *)
(* generate_sys_patch_dict once the flag is stored.                        *)

init_outcome ==
    LET cve == is_affect_by_cve_2024_23227
    IN  IF cve.raised
        THEN [raised |-> TRUE, exception |-> "InvalidVersion", affected |-> FALSE]
        ELSE IF Len(non_metal_os_support) = 0
        THEN [raised |-> TRUE, exception |-> "IndexError", affected |-> cve.value]
        ELSE [raised |-> FALSE, exception |-> "", affected |-> cve.value]

-----------------------------------------------------------------------------
(* PatcherValidation._validate_root_patch_files *)

payload_local_binaries_root_path == "payloads/Universal-Binaries"

host_os_float == Float(os_major, os_minor)

patch_os_min_float(group) == Float(group.MinimumOS[1], group.MinimumOS[2])

patch_os_max_float(group) == Float(group.MaximumOS[1], group.MaximumOS[2])

(* the range test with "and" written for "or": nothing is ever skipped   *)
os_support_admits_and(group) ==
    ~(/\ FloatLT(host_os_float, patch_os_min_float(group))
      /\ FloatGT(host_os_float, patch_os_max_float(group)))

(* the range test: the group is skipped when this is false *)
os_support_admits(group) ==
    ~(\/ FloatLT(host_os_float, patch_os_min_float(group))
      \/ FloatGT(host_os_float, patch_os_max_float(group)))

(* the path without the install directory *)
source_file_without_directory(entry) ==
    payload_local_binaries_root_path \o "/" \o entry[3] \o "/" \o entry[2]

source_file(entry) ==
    payload_local_binaries_root_path \o "/" \o entry[3] \o entry[1] \o "/" \o entry[2]

(* the k-th entry the loops over "Install", then "Install Non-Root" reach *)
install_entry(group, k) ==
    IF k <= Len(group.Install) THEN group.Install[k]
    ELSE group.InstallNonRoot[k - Len(group.Install)]

(* the source paths of one group's install entries, in loop order *)
group_source_files(group) ==
    [k \in 1..(Len(group.Install) + Len(group.InstallNonRoot))
        |-> source_file(install_entry(group, k))]

(* the source paths the loops reach in the groups lo..hi of the catalog,   *)
(* in catalog order: the halves of the range one after the other          *)
RECURSIVE source_files_between(_, _, _)
source_files_between(patchset, lo, hi) ==
    IF lo > hi THEN << >>
    ELSE IF lo = hi
    THEN (IF os_support_admits(patchset[lo])
          THEN group_source_files(patchset[lo]) ELSE << >>)
    ELSE LET mid == (lo + hi) \div 2
         IN  source_files_between(patchset, lo, mid)
                 \o source_files_between(patchset, mid + 1, hi)

(* every source path of the groups the range test lets through, in the    *)
(* order the loops reach them                                              *)
source_files(patchset) == source_files_between(patchset, 1, Len(patchset))

(* The paths whose existence is tested: the walk over source_files stops  *)
(* at the first path that does not exist, which is then the last element. *)
exists_calls(patchset, absent) ==
    LET files   == source_files(patchset)
        missing == {k \in 1..Len(files) : files[k] \in absent}
    IN  IF missing = {} THEN files
        ELSE SubSeq(files, 1, CHOOSE k \in missing : \A j \in missing : k <= j)

(* the groups the range test lets through before the walk ends: all of    *)
(* them, or those up to the group of the first path that does not exist   *)
admitted_groups(patchset, absent) ==
    LET idx  == {i \in 1..Len(patchset) : os_support_admits(patchset[i])}
        bad  == {i \in idx : \E k \in DOMAIN group_source_files(patchset[i]) :
                                 group_source_files(patchset[i])[k] \in absent}
        stop == IF bad = {} THEN Len(patchset)
                ELSE CHOOSE i \in bad : \A j \in bad : i <= j
    IN  {patchset[i].name : i \in {j \in idx : j <= stop}}

-----------------------------------------------------------------------------
(* The resolved plan: the applicable groups' five operation maps merged in  *)
(* declaration order, a later group's entry replacing an earlier one for   *)
(* the same destination.                                                   *)

(* the map of one group: a later entry for the same key replaces an earlier *)
RECURSIVE file_map_from(_, _)
file_map_from(entries, k) ==
    IF k > Len(entries) THEN << >>
    ELSE file_map_from(entries, k + 1)
             @@ (<<entries[k][1], entries[k][2]>> :> entries[k][3])

RECURSIVE process_map_from(_, _)
process_map_from(entries, k) ==
    IF k > Len(entries) THEN << >>
    ELSE process_map_from(entries, k + 1) @@ (entries[k][1] :> entries[k][2])

group_plan(group) ==
    [ InstallRoot |-> file_map_from(group.Install, 1),
      InstallUser |-> file_map_from(group.InstallNonRoot, 1),
      RemoveRoot  |-> {group.Remove[k] : k \in 1..Len(group.Remove)},
      RemoveUser  |-> {group.RemoveNonRoot[k] : k \in 1..Len(group.RemoveNonRoot)},
      Processes   |-> process_map_from(group.Processes, 1) ]

empty_plan ==
    [ InstallRoot |-> << >>, InstallUser |-> << >>, RemoveRoot |-> {},
      RemoveUser |-> {}, Processes |-> << >> ]

(* later over earlier: on a key of both, the later group's value stays *)
merge(later, earlier) ==
    [ InstallRoot |-> later.InstallRoot @@ earlier.InstallRoot,
      InstallUser |-> later.InstallUser @@ earlier.InstallUser,
      RemoveRoot  |-> later.RemoveRoot \cup earlier.RemoveRoot,
      RemoveUser  |-> later.RemoveUser \cup earlier.RemoveUser,
      Processes   |-> later.Processes @@ earlier.Processes ]

(* the plan of the groups lo..hi of the catalog: the plan of the later    *)
(* half merged over the plan of the earlier half                          *)
RECURSIVE resolve_between(_, _, _)
resolve_between(patchset, lo, hi) ==
    IF lo > hi THEN empty_plan
    ELSE IF lo = hi
    THEN (IF os_support_admits(patchset[lo])
          THEN group_plan(patchset[lo]) ELSE empty_plan)
    ELSE LET mid == (lo + hi) \div 2
         IN  merge(resolve_between(patchset, mid + 1, hi),
                   resolve_between(patchset, lo, mid))

resolve(patchset) == resolve_between(patchset, 1, Len(patchset))

-----------------------------------------------------------------------------
(* The targets of the model *)

KernelMajors == catalina..MaxKernelMajor

KernelMinors == 0..MaxKernelMinor

MarketingVersions ==
    { <<"1", "1", ".", "7", ".", "1", "0">>,
      <<"1", "2", ".", "7", ".", "3">>,
      <<"1", "2", ".", "7", ".", "4">>,
      <<"1", "2", ".", "1", "0">>,
      <<"1", "3", ".", "0">>,
      <<"1", "3", ".", "6", ".", "5">>,
      <<"1", "4", ".", "3", ".", "1">>,
      <<"1", "4", ".", "4">>,
      <<"1", "2", ".", "x">>,
      <<"1", "4", ".">> }

LegacyAccelSupport ==
    { << >>,
      <<big_sur, monterey, ventura>>,
      <<big_sur, monterey, ventura, sonoma>>,
      <<max_os + 1>> }

(* candidate payload files that may be missing from the store *)
AbsentCandidates ==
    { payload_local_binaries_root_path \o "/10.14.6/System/Library/Extensions/IOSurface.kext",
      payload_local_binaries_root_path \o "/11.7.10-Sandbox/usr/libexec/airportd" }

-----------------------------------------------------------------------------

Init ==
    /\ os_major \in KernelMajors
    /\ os_minor \in KernelMinors
    /\ marketing_version \in MarketingVersions
    /\ non_metal_os_support \in LegacyAccelSupport
    /\ affected_by_cve_2024_23227 = FALSE
    /\ patchset_dict = << >>
    /\ pc = "start"
    /\ exception = ""
    /\ verify_unused_files = FALSE
    /\ active_patchset_files = << >>
    /\ payload_absent = {}
    /\ checked_groups = {}
    /\ checked_files = << >>
    /\ descriptors = {}
    /\ plan = empty_plan
    /\ run_pc = "idle"
    /\ mounted = FALSE
    /\ overlay_exists = FALSE
    /\ validated_versions = << >>
    /\ unmount_attempted = FALSE
    /\ payload_tree = {}
    /\ unused_files = {}
    /\ find_unused_runs = 0
    /\ serialized = {}
    /\ commands = << >>
    /\ dmg_exists = TRUE
    /\ settings = "default"
    /\ model_index = 0

(* the construction that swallows its error and leaves an empty catalog *)
SystemPatchDictionary_error_swallowed ==
    /\ pc = "start"
    /\ UNCHANGED context
    /\ UNCHANGED <<verify_unused_files, active_patchset_files, payload_absent,
                   checked_groups, checked_files, descriptors, serialized, plan>>
    /\ UNCHANGED run_vars
    /\ affected_by_cve_2024_23227' = init_outcome.affected
    /\ exception' = ""
    /\ IF init_outcome.raised
       THEN pc' = "resolved" /\ patchset_dict' = << >>
       ELSE pc' = "constructed" /\ patchset_dict' = generate_sys_patch_dict'

(* patchsets = SystemPatchDictionary(major, minor, legacy, marketing) *)
SystemPatchDictionary ==
    /\ pc = "start"
    /\ UNCHANGED context
    /\ UNCHANGED <<verify_unused_files, active_patchset_files, payload_absent,
                   checked_groups, checked_files, descriptors, serialized, plan>>
    /\ UNCHANGED run_vars
    /\ affected_by_cve_2024_23227' = init_outcome.affected
    /\ exception' = init_outcome.exception
    /\ IF init_outcome.raised
       THEN pc' = "raised" /\ patchset_dict' = << >>
       ELSE pc' = "constructed" /\ patchset_dict' = generate_sys_patch_dict'

(* The plan for the target, merged from the catalog *)
Resolve ==
    /\ pc = "constructed"
    /\ pc' = "resolved"
    /\ plan' = resolve(patchset_dict)
    /\ UNCHANGED context
    /\ UNCHANGED <<affected_by_cve_2024_23227, patchset_dict, exception,
                   verify_unused_files, active_patchset_files, payload_absent,
                   checked_groups, checked_files, descriptors, serialized>>
    /\ UNCHANGED run_vars

(* generate_patchset_plist, the descriptor it writes for the target *)
plist_name ==
    "OpenCore-Legacy-Patcher-" \o ToString(os_major) \o "." \o ToString(os_minor) \o ".plist"

(* The body of _validate_root_patch_files after its first statement has   *)
(* built the catalog: the range test, the payload cross-check, the        *)
(* descriptor.  absent: the source paths the payload store lacks;         *)
(* plist_ok: the result of generate_patchset_plist; plist_left: whether a *)
(* failed generate_patchset_plist left its file behind.                   *)
root_patch_files_walk(absent) ==
    /\ checked_groups' = admitted_groups(patchset_dict, absent)
    /\ checked_files' = exists_calls(patchset_dict, absent)

(* the ending that appends the path before testing that it exists *)
root_patch_files_end_append_first(absent, verify, plist_ok, plist_left) ==
    /\ LET n == Len(checked_files')
       IN  IF n > 0 /\ checked_files'[n] \in absent
           THEN /\ pc' = "raised"
                /\ exception' = "Failed to find " \o checked_files'[n]
                /\ active_patchset_files' = active_patchset_files \o
                       (IF verify THEN checked_files' ELSE << >>)
                /\ descriptors' = descriptors
                /\ serialized' = serialized
           ELSE /\ active_patchset_files' = active_patchset_files \o
                       (IF verify THEN checked_files' ELSE << >>)
                /\ serialized' = {patchset_dict[i].name : i \in 1..Len(patchset_dict)}
                /\ IF plist_ok
                   THEN /\ pc' = "validated"
                        /\ exception' = ""
                        /\ descriptors' = descriptors \ {plist_name}
                   ELSE /\ pc' = "raised"
                        /\ exception' = "Failed to generate patchset plist"
                        /\ descriptors' = IF plist_left THEN descriptors \cup {plist_name}
                                                        ELSE descriptors \ {plist_name}

(* how the walk that reached checked_files' ends *)
root_patch_files_end(absent, verify, plist_ok, plist_left) ==
    /\ LET n == Len(checked_files')
       IN  IF n > 0 /\ checked_files'[n] \in absent
           THEN /\ pc' = "raised"
                /\ exception' = "Failed to find " \o checked_files'[n]
                /\ active_patchset_files' = active_patchset_files \o
                       (IF verify THEN SubSeq(checked_files', 1, n - 1) ELSE << >>)
                /\ descriptors' = descriptors
                /\ serialized' = serialized
           ELSE /\ active_patchset_files' = active_patchset_files \o
                       (IF verify THEN checked_files' ELSE << >>)
                /\ serialized' = {patchset_dict[i].name : i \in 1..Len(patchset_dict)}
                /\ IF plist_ok
                   THEN /\ pc' = "validated"
                        /\ exception' = ""
                        /\ descriptors' = descriptors \ {plist_name}
                   ELSE /\ pc' = "raised"
                        /\ exception' = "Failed to generate patchset plist"
                        /\ descriptors' = IF plist_left THEN descriptors \cup {plist_name}
                                                        ELSE descriptors \ {plist_name}

(* PatcherValidation._validate_root_patch_files(major, minor) called on   *)
(* its own, after its first statement (SystemPatchDictionary above): the  *)
(* payload store and the verify_unused_files setting are its inputs.      *)
validate_root_patch_files ==
    /\ run_pc = "idle"
    /\ pc = "constructed"
    /\ UNCHANGED context
    /\ UNCHANGED <<affected_by_cve_2024_23227, patchset_dict, plan>>
    /\ UNCHANGED run_vars
    /\ \E absent \in {{}} \cup {{p} : p \in AbsentCandidates} :
        /\ payload_absent' = absent
        /\ root_patch_files_walk(absent)
        /\ \E verify \in BOOLEAN, plist_ok \in BOOLEAN, plist_left \in BOOLEAN :
            /\ verify_unused_files' = verify
            /\ root_patch_files_end(absent, verify, plist_ok, plist_left)

Next ==
    \/ SystemPatchDictionary
    \/ Resolve
    \/ validate_root_patch_files

Spec == Init /\ [][Next]_vars

-----------------------------------------------------------------------------
(* PatcherValidation._find_unused_files.  An entry of the payload tree is  *)
(* [path, is_dir], path as rglob yields it, below the payload root.        *)

(* Path(p).relative_to(payload_local_binaries_root_path), as a string *)
relative_to(p) == SubSeq(p, Len(payload_local_binaries_root_path) + 2, Len(p))

(* Path.name: what follows the last "/" *)
path_name(p) ==
    LET slashes == {i \in 1..Len(p) : SubSeq(p, i, i) = "/"}
    IN  IF slashes = {} THEN p
        ELSE SubSeq(p, (CHOOSE i \in slashes : \A j \in slashes : j <= i) + 1, Len(p))

(* a in b on strings: a occurs in b *)
in_str(a, b) == \E i \in 1..(Len(b) - Len(a) + 1) : SubSeq(b, i, i + Len(a) - 1) = a

(* is_used: some used path matches the relative path, one way or the other *)
is_used(relative_path, active) ==
    \E used_file \in {active[k] : k \in 1..Len(active)} :
        \/ in_str(relative_path, relative_to(used_file))
        \/ in_str(relative_to(used_file), relative_path)

(* every match is taken for an equal path *)
find_unused_files_equal_only(tree, active) ==
    IF active = << >> THEN {}
    ELSE LET used == {relative_to(active[k]) : k \in 1..Len(active)}
         IN  { relative_to(f.path) : f \in
                 { g \in tree :
                     /\ ~g.is_dir
                     /\ path_name(relative_to(g.path)) # ".DS_Store"
                     /\ relative_to(g.path) \notin {".fseventsd/fseventsd-uuid", ".signed"}
                     /\ relative_to(g.path) \notin used } }

(* the second test of the loop over the used files left out *)
find_unused_files_one_way(tree, active) ==
    IF active = << >> THEN {}
    ELSE { relative_to(f.path) : f \in
             { g \in tree :
                 /\ ~g.is_dir
                 /\ path_name(relative_to(g.path)) # ".DS_Store"
                 /\ relative_to(g.path) \notin {".fseventsd/fseventsd-uuid", ".signed"}
                 /\ ~\E k \in 1..Len(active) :
                        in_str(relative_to(g.path), relative_to(active[k])) } }

(* unused_files at the end of _find_unused_files; nothing when the list   *)
(* of used files is empty                                                 *)
find_unused_files(tree, active) ==
    IF active = << >> THEN {}
    ELSE { relative_to(f.path) : f \in
             { g \in tree :
                 /\ ~g.is_dir
                 /\ path_name(relative_to(g.path)) # ".DS_Store"
                 /\ relative_to(g.path) \notin {".fseventsd/fseventsd-uuid", ".signed"}
                 /\ ~is_used(relative_to(g.path), active) } }

(* entries a payload tree of the model may hold *)
InPayload(rel, dir) ==
    [path |-> payload_local_binaries_root_path \o "/" \o rel, is_dir |-> dir]

TreeCandidates ==
    { InPayload("10.14.6/System/Library/Extensions/IOSurface.kext", TRUE),
      InPayload("10.14.6/System/Library/Extensions/IOSurface.kext/Contents/Info.plist", FALSE),
      InPayload("11.7.10/usr/libexec/airportd", FALSE),
      InPayload("11.7.10/usr/libexec/airportd.bak", FALSE),
      InPayload("airportd", FALSE),
      InPayload("12.5/Orphaned.dylib", FALSE),
      InPayload("10.14.6/.DS_Store", FALSE),
      InPayload(".signed", FALSE),
      InPayload(".fseventsd/fseventsd-uuid", FALSE) }

(* lists of used files a run may have recorded *)
UsedCandidates ==
    { << >>,
      << payload_local_binaries_root_path \o "/10.14.6/System/Library/Extensions/IOSurface.kext" >>,
      << payload_local_binaries_root_path \o "/11.7.10/usr/libexec/airportd" >>,
      << payload_local_binaries_root_path \o "/10.14.6/System/Library/Extensions/IOSurface.kext",
         payload_local_binaries_root_path \o "/11.7.10/usr/libexec/airportd" >> }

InitOrphans ==
    /\ os_major = big_sur
    /\ os_minor = 0
    /\ marketing_version = <<"1", "1", ".", "7", ".", "1", "0">>
    /\ non_metal_os_support = <<big_sur, monterey, ventura, sonoma>>
    /\ affected_by_cve_2024_23227 = FALSE
    /\ patchset_dict = << >>
    /\ pc = "start"
    /\ exception = ""
    /\ verify_unused_files = TRUE
    /\ active_patchset_files \in UsedCandidates
    /\ payload_absent = {}
    /\ checked_groups = {}
    /\ checked_files = << >>
    /\ descriptors = {}
    /\ plan = empty_plan
    /\ run_pc = "find_unused"
    /\ mounted = TRUE
    /\ overlay_exists = TRUE
    /\ validated_versions = << >>
    /\ unmount_attempted = FALSE
    /\ payload_tree \in SUBSET TreeCandidates
    /\ unused_files = {}
    /\ find_unused_runs = 0
    /\ serialized = {}
    /\ commands = << >>
    /\ dmg_exists = TRUE
    /\ settings = "flipped"
    /\ model_index = 0

(* self._find_unused_files() *)
find_unused_files_call ==
    /\ run_pc = "find_unused"
    /\ run_pc' = "found"
    /\ unused_files' = find_unused_files(payload_tree, active_patchset_files)
    /\ find_unused_runs' = find_unused_runs + 1
    /\ UNCHANGED context
    /\ UNCHANGED <<affected_by_cve_2024_23227, patchset_dict, pc, exception,
                   verify_unused_files, active_patchset_files, payload_absent,
                   checked_groups, checked_files, descriptors, serialized, plan>>
    /\ UNCHANGED <<mounted, overlay_exists, validated_versions, unmount_attempted,
                   payload_tree, commands, dmg_exists, settings, model_index>>

NextOrphans == find_unused_files_call

SpecOrphans == InitOrphans /\ [][NextOrphans]_vars

-----------------------------------------------------------------------------
(* PatcherValidation._validate_sys_patch: the payload image, the version   *)
(* matrix, the SNB board ID patch, the unused files, the unmount.          *)

supported_os == <<big_sur, monterey, ventura, sonoma>>

(* range(0, 10) *)
matrix_minors == 10

(* the loops nested the other way round: minor outside, major inside *)
supported_versions_minor_outer ==
    [k \in 1..(Len(supported_os) * matrix_minors) |->
        <<supported_os[((k - 1) % Len(supported_os)) + 1], (k - 1) \div Len(supported_os)>>]

(* the (supported_os, i) of the nested loops, in the order they are run *)
supported_versions ==
    [k \in 1..(Len(supported_os) * matrix_minors) |->
        <<supported_os[((k - 1) \div matrix_minors) + 1], (k - 1) % matrix_minors>>]

(* constants.detected_os_version and constants.legacy_accel_support of a run *)
RunMarketingVersions ==
    { <<"1", "2", ".", "7", ".", "3">>, <<"1", "4", ".", "4">>, <<"1", "2", ".", "x">> }

RunLegacyAccelSupport == { << >>, <<big_sur, monterey, ventura, sonoma>> }

(* what the mounted payload may lack *)
RunAbsent ==
    { {},
      { payload_local_binaries_root_path \o "/10.14.6/System/Library/Extensions/IOSurface.kext" },
      { payload_local_binaries_root_path \o "/11.7.10-Sandbox/usr/libexec/airportd" },
      { payload_local_binaries_root_path \o "/13.2.1-22/System/Library/Frameworks/Metal.framework",
        payload_local_binaries_root_path \o "/11.7.10-Sandbox/usr/libexec/airportd" } }

(* what the mounted payload holds besides the files the catalog names *)
RunTrees ==
    { {},
      { InPayload("12.5/Orphaned.dylib", FALSE),
        InPayload("11.7.10/usr/libexec/airportd.bak", FALSE),
        InPayload(".signed", FALSE) } }

(* what earlier runs left on disk: nothing at all, the archive alone, the *)
(* archive with the image still attached and its shadow file (a run that *)
(* raised after the attach), the archive with a shadow file only (an     *)
(* attach that failed)                                                   *)
RunLeftovers ==
    { [dmg |-> FALSE, mounted |-> FALSE, overlay |-> FALSE],
      [dmg |-> TRUE,  mounted |-> FALSE, overlay |-> FALSE],
      [dmg |-> TRUE,  mounted |-> TRUE,  overlay |-> TRUE],
      [dmg |-> TRUE,  mounted |-> FALSE, overlay |-> TRUE] }

InitRun ==
    /\ os_major = big_sur
    /\ os_minor = 0
    /\ marketing_version \in RunMarketingVersions
    /\ non_metal_os_support \in RunLegacyAccelSupport
    /\ affected_by_cve_2024_23227 = FALSE
    /\ patchset_dict = << >>
    /\ pc = "start"
    /\ exception = ""
    /\ verify_unused_files \in BOOLEAN
    /\ active_patchset_files = << >>
    /\ payload_absent \in RunAbsent
    /\ checked_groups = {}
    /\ checked_files = << >>
    /\ descriptors = {}
    /\ plan = empty_plan
    /\ run_pc = "start"
    /\ \E left \in RunLeftovers :
        /\ dmg_exists = left.dmg
        /\ mounted = left.mounted
        /\ overlay_exists = left.overlay
    /\ validated_versions = << >>
    /\ unmount_attempted = FALSE
    /\ payload_tree \in RunTrees
    /\ unused_files = {}
    /\ find_unused_runs = 0
    /\ serialized = {}
    /\ commands = << >>
    /\ settings = "flipped"
    /\ model_index = 0

(* what no step of the run but the matrix touches *)
matrix_vars == <<os_major, os_minor, affected_by_cve_2024_23227, patchset_dict, pc,
                 active_patchset_files, checked_groups, checked_files, descriptors,
                 serialized, validated_versions>>

(* set by the caller of the run *)
run_inputs == <<marketing_version, non_metal_os_support, verify_unused_files,
                payload_absent, payload_tree, plan, settings, model_index>>

(* an external command, the settings in force when it is issued, and its *)
(* exit code                                                             *)
Command(cmd, arg, rc) == <<cmd, arg, settings, rc>>

(* the download that does not look whether the archive is there *)
download_payload_unconditional ==
    /\ run_pc = "start"
    /\ UNCHANGED matrix_vars
    /\ UNCHANGED run_inputs
    /\ UNCHANGED <<mounted, overlay_exists, unmount_attempted, unused_files,
                   find_unused_runs>>
    /\ \E download_complete \in BOOLEAN :
        /\ commands' = Append(commands,
               Command("download", "Universal-Binaries.dmg",
                       IF download_complete THEN 0 ELSE 1))
        /\ dmg_exists' = download_complete
        /\ IF download_complete
           THEN run_pc' = "overlay" /\ exception' = exception
           ELSE /\ run_pc' = "raised"
                /\ exception' = "Failed to download Universal-Binaries.dmg"

(* lines 155-160: the download of the payload archive when it is absent *)
download_payload ==
    /\ run_pc = "start"
    /\ UNCHANGED matrix_vars
    /\ UNCHANGED run_inputs
    /\ UNCHANGED <<mounted, overlay_exists, unmount_attempted, unused_files,
                   find_unused_runs>>
    /\ IF dmg_exists
       THEN /\ run_pc' = "overlay"
            /\ UNCHANGED <<exception, commands, dmg_exists>>
       ELSE \E download_complete \in BOOLEAN :
            /\ commands' = Append(commands,
                   Command("download", "Universal-Binaries.dmg",
                           IF download_complete THEN 0 ELSE 1))
            /\ dmg_exists' = download_complete
            /\ IF download_complete
               THEN run_pc' = "overlay" /\ exception' = exception
               ELSE /\ run_pc' = "raised"
                    /\ exception' = "Failed to download Universal-Binaries.dmg"

(* lines 164-170: rm -f of a shadow file an earlier run left *)
remove_stale_overlay ==
    /\ run_pc = "overlay"
    /\ run_pc' = "stale"
    /\ UNCHANGED matrix_vars
    /\ UNCHANGED run_inputs
    /\ UNCHANGED <<exception, mounted, unmount_attempted, unused_files,
                   find_unused_runs, dmg_exists>>
    /\ IF overlay_exists
       THEN /\ commands' = Append(commands, Command("rm", "Universal-Binaries_overlay", 0))
            /\ overlay_exists' = FALSE
       ELSE UNCHANGED <<commands, overlay_exists>>

(* the mountpoint left as it is found *)
detach_stale_skipped ==
    /\ run_pc = "stale"
    /\ run_pc' = "attach"
    /\ UNCHANGED matrix_vars
    /\ UNCHANGED run_inputs
    /\ UNCHANGED <<overlay_exists, unmount_attempted, unused_files, find_unused_runs,
                   dmg_exists>>
    /\ UNCHANGED <<exception, mounted, commands>>


(* lines 171-184: hdiutil detach -force of a mountpoint that exists *)
detach_stale ==
    /\ run_pc = "stale"
    /\ UNCHANGED matrix_vars
    /\ UNCHANGED run_inputs
    /\ UNCHANGED <<overlay_exists, unmount_attempted, unused_files, find_unused_runs,
                   dmg_exists>>
    /\ IF mounted
       THEN \E detached \in BOOLEAN :
            /\ commands' = Append(commands,
                   Command("hdiutil detach", "Universal-Binaries",
                           IF detached THEN 0 ELSE 1))
            /\ IF detached
               THEN run_pc' = "attach" /\ exception' = exception /\ mounted' = FALSE
               ELSE /\ run_pc' = "raised"
                    /\ exception' = "Failed to unmount Universal-Binaries.dmg"
                    /\ mounted' = TRUE
       ELSE /\ run_pc' = "attach"
            /\ UNCHANGED <<exception, mounted, commands>>

(* the attach whose exit code is not looked at *)
attach_payload_exit_code_ignored ==
    /\ run_pc = "attach"
    /\ UNCHANGED matrix_vars
    /\ UNCHANGED run_inputs
    /\ UNCHANGED <<unmount_attempted, unused_files, find_unused_runs, dmg_exists>>
    /\ \E attached \in BOOLEAN :
        /\ commands' = Append(commands,
               Command("hdiutil attach", "Universal-Binaries.dmg",
                       IF attached THEN 0 ELSE 1))
        /\ run_pc' = "matrix"
        /\ exception' = exception
        /\ mounted' = attached
        /\ overlay_exists' = TRUE

(* lines 186-203: hdiutil attach with the shadow file *)
attach_payload ==
    /\ run_pc = "attach"
    /\ UNCHANGED matrix_vars
    /\ UNCHANGED run_inputs
    /\ UNCHANGED <<unmount_attempted, unused_files, find_unused_runs, dmg_exists>>
    /\ \E attached \in BOOLEAN, shadow_left \in BOOLEAN :
        /\ commands' = Append(commands,
               Command("hdiutil attach", "Universal-Binaries.dmg",
                       IF attached THEN 0 ELSE 1))
        /\ IF attached
           THEN /\ run_pc' = "matrix"
                /\ exception' = exception
                /\ mounted' = TRUE
                /\ overlay_exists' = TRUE
           ELSE /\ run_pc' = "raised"
                /\ exception' = "Failed to mount Universal-Binaries.dmg"
                /\ mounted' = FALSE
                /\ overlay_exists' = shadow_left

(* lines 206-208 and 122: the next (supported_os, i) of the loops and the *)
(* first statement of _validate_root_patch_files, which builds the        *)
(* catalog for it                                                         *)
matrix_call ==
    /\ run_pc = "matrix"
    /\ pc # "constructed"
    /\ Len(validated_versions) < Len(supported_versions)
    /\ UNCHANGED run_inputs
    /\ UNCHANGED <<active_patchset_files, checked_groups, checked_files, descriptors,
                   serialized>>
    /\ UNCHANGED <<mounted, overlay_exists, unmount_attempted, unused_files,
                   find_unused_runs, commands, dmg_exists>>
    /\ os_major' = supported_versions[Len(validated_versions) + 1][1]
    /\ os_minor' = supported_versions[Len(validated_versions) + 1][2]
    /\ validated_versions' = Append(validated_versions, <<os_major', os_minor'>>)
    /\ affected_by_cve_2024_23227' = init_outcome'.affected
    /\ exception' = init_outcome'.exception
    /\ IF init_outcome'.raised
       THEN pc' = "raised" /\ run_pc' = "raised" /\ patchset_dict' = << >>
       ELSE pc' = "constructed" /\ run_pc' = "matrix"
                /\ patchset_dict' = generate_sys_patch_dict'

(* lines 123-147 for the catalog matrix_call built *)
matrix_validate ==
    /\ run_pc = "matrix"
    /\ pc = "constructed"
    /\ UNCHANGED context
    /\ UNCHANGED <<affected_by_cve_2024_23227, patchset_dict, plan, verify_unused_files,
                   payload_absent>>
    /\ UNCHANGED <<mounted, overlay_exists, validated_versions, unmount_attempted,
                   payload_tree, unused_files, find_unused_runs>>
    /\ UNCHANGED <<commands, dmg_exists, settings, model_index>>
    /\ root_patch_files_walk(payload_absent)
    /\ \E plist_ok \in BOOLEAN, plist_left \in BOOLEAN :
        root_patch_files_end(payload_absent, verify_unused_files, plist_ok, plist_left)
    /\ run_pc' = IF pc' = "raised" THEN "raised"
                 ELSE IF Len(validated_versions) = Len(supported_versions) THEN "snb"
                 ELSE "matrix"

(* lines 210-212: snb_board_id_patch, which may raise *)
snb_board_id_patch ==
    /\ run_pc = "snb"
    /\ UNCHANGED matrix_vars
    /\ UNCHANGED run_inputs
    /\ UNCHANGED <<mounted, overlay_exists, unmount_attempted, unused_files,
                   find_unused_runs, commands, dmg_exists>>
    /\ \E patched \in BOOLEAN :
        IF patched
        THEN run_pc' = "unused" /\ exception' = exception
        ELSE run_pc' = "raised" /\ exception' = "snb_board_id_patch"

(* the unused files sought whatever verify_unused_files is *)
matrix_find_unused_always ==
    /\ run_pc = "unused"
    /\ run_pc' = "detach"
    /\ UNCHANGED matrix_vars
    /\ UNCHANGED run_inputs
    /\ UNCHANGED <<exception, mounted, overlay_exists, unmount_attempted, commands,
                   dmg_exists>>
    /\ unused_files' = find_unused_files(payload_tree, active_patchset_files)
    /\ find_unused_runs' = find_unused_runs + 1

(* lines 214-215 *)
matrix_find_unused ==
    /\ run_pc = "unused"
    /\ run_pc' = "detach"
    /\ UNCHANGED matrix_vars
    /\ UNCHANGED run_inputs
    /\ UNCHANGED <<exception, mounted, overlay_exists, unmount_attempted, commands,
                   dmg_exists>>
    /\ IF verify_unused_files
       THEN /\ unused_files' = find_unused_files(payload_tree, active_patchset_files)
            /\ find_unused_runs' = find_unused_runs + 1
       ELSE UNCHANGED <<unused_files, find_unused_runs>>

(* the detach whose exit code is not looked at *)
detach_payload_exit_code_ignored ==
    /\ run_pc = "detach"
    /\ run_pc' = "remove_overlay"
    /\ UNCHANGED matrix_vars
    /\ UNCHANGED run_inputs
    /\ UNCHANGED <<exception, overlay_exists, unused_files, find_unused_runs, dmg_exists>>
    /\ unmount_attempted' = TRUE
    /\ \E detached \in BOOLEAN :
        /\ commands' = Append(commands,
               Command("hdiutil detach", "Universal-Binaries",
                       IF detached THEN 0 ELSE 1))
        /\ mounted' = ~detached


(* lines 217-230: hdiutil detach *)
detach_payload ==
    /\ run_pc = "detach"
    /\ UNCHANGED matrix_vars
    /\ UNCHANGED run_inputs
    /\ UNCHANGED <<overlay_exists, unused_files, find_unused_runs, dmg_exists>>
    /\ unmount_attempted' = TRUE
    /\ \E detached \in BOOLEAN :
        /\ commands' = Append(commands,
               Command("hdiutil detach", "Universal-Binaries",
                       IF detached THEN 0 ELSE 1))
        /\ IF detached
           THEN run_pc' = "remove_overlay" /\ exception' = exception /\ mounted' = FALSE
           ELSE /\ run_pc' = "raised"
                /\ exception' = "Failed to unmount Universal-Binaries.dmg"
                /\ mounted' = TRUE

(* lines 232-237: rm -f of the shadow file *)
remove_overlay ==
    /\ run_pc = "remove_overlay"
    /\ run_pc' = "done"
    /\ overlay_exists' = FALSE
    /\ commands' = Append(commands, Command("rm", "Universal-Binaries_overlay", 0))
    /\ UNCHANGED matrix_vars
    /\ UNCHANGED run_inputs
    /\ UNCHANGED <<exception, mounted, unmount_attempted, unused_files, find_unused_runs,
                   dmg_exists>>

NextRun ==
    \/ download_payload
    \/ remove_stale_overlay
    \/ detach_stale
    \/ attach_payload
    \/ matrix_call
    \/ matrix_validate
    \/ snb_board_id_patch
    \/ matrix_find_unused
    \/ detach_payload
    \/ remove_overlay

SpecRun == InitRun /\ [][NextRun]_vars

-----------------------------------------------------------------------------
(* PatcherValidation.__init__: _validate_configs, then _validate_sys_patch *)

(* model_array.SupportedSMBIOS, the predefined models *)
SupportedSMBIOS == <<"MacBook5,1", "iMac7,1", "MacPro3,1">>

(* self.valid_dumps, each entry under the name __init__ gives it *)
valid_dumps ==
    <<"MacBookPro.MacBookPro92_Stock",
      "MacBookPro.MacBookPro111_Stock",
      "MacBookPro.MacBookPro133_Stock",
      "Macmini.Macmini52_Stock",
      "Macmini.Macmini61_Stock",
      "Macmini.Macmini71_Stock",
      "iMac.iMac81_Stock",
      "iMac.iMac112_Stock",
      "iMac.iMac122_Upgraded",
      "iMac.iMac122_Upgraded_Nvidia",
      "iMac.iMac151_Stock",
      "MacPro.MacPro31_Stock",
      "MacPro.MacPro31_Upgrade",
      "MacPro.MacPro31_Modern_AMD",
      "MacPro.MacPro31_Modern_Kepler",
      "MacPro.MacPro41_Upgrade",
      "MacPro.MacPro41_Modern_AMD",
      "MacPro.MacPro41_51__Flashed_Modern_AMD",
      "MacPro.MacPro41_51_Flashed_NVIDIA_WEB_DRIVERS">>

(* what _validate_configs leaves alone *)
config_frame == <<matrix_vars, marketing_version, non_metal_os_support,
                  verify_unused_files, payload_absent, payload_tree, plan, mounted,
                  overlay_exists, unmount_attempted, unused_files, find_unused_runs,
                  dmg_exists>>

InitInit ==
    /\ os_major = big_sur
    /\ os_minor = 0
    /\ marketing_version = <<"1", "4", ".", "4">>
    /\ non_metal_os_support = <<big_sur, monterey, ventura, sonoma>>
    /\ affected_by_cve_2024_23227 = FALSE
    /\ patchset_dict = << >>
    /\ pc = "start"
    /\ exception = ""
    /\ verify_unused_files \in BOOLEAN
    /\ active_patchset_files = << >>
    /\ payload_absent = {}
    /\ checked_groups = {}
    /\ checked_files = << >>
    /\ descriptors = {}
    /\ plan = empty_plan
    /\ run_pc = "prebuilt"
    /\ \E left \in RunLeftovers :
        /\ dmg_exists = left.dmg
        /\ mounted = left.mounted
        /\ overlay_exists = left.overlay
    /\ validated_versions = << >>
    /\ unmount_attempted = FALSE
    /\ payload_tree = {}
    /\ unused_files = {}
    /\ find_unused_runs = 0
    /\ serialized = {}
    /\ commands = << >>
    /\ settings = "default"
    /\ model_index = 0

(* the loop that goes on after a non-zero exit code of ocvalidate *)
build_and_validate_exit_code_ignored(models, after) ==
    /\ model_index < Len(models)
    /\ UNCHANGED config_frame
    /\ UNCHANGED settings
    /\ LET model == models[model_index + 1]
       IN  \E returncode \in {0, 1} :
           /\ commands' = commands \o <<Command("BuildOpenCore", model, 0),
                                        Command("ocvalidate", model, returncode)>>
           /\ exception' = exception
           /\ IF model_index + 1 = Len(models)
              THEN run_pc' = after /\ model_index' = 0
              ELSE run_pc' = run_pc /\ model_index' = model_index + 1

(* one turn of the loop of _build_prebuilt or _build_dumps over models:   *)
(* build.BuildOpenCore, then ocvalidate on the config.plist it wrote; a   *)
(* non-zero exit code raises.  after: where the caller goes on when the   *)
(* loop is through.                                                       *)
build_and_validate(models, after) ==
    /\ model_index < Len(models)
    /\ UNCHANGED config_frame
    /\ UNCHANGED settings
    /\ LET model == models[model_index + 1]
       IN  \E built \in BOOLEAN, returncode \in {0, 1} :
           IF ~built
           THEN /\ commands' = Append(commands, Command("BuildOpenCore", model, 1))
                /\ run_pc' = "raised"
                /\ exception' = "BuildOpenCore"
                /\ model_index' = model_index
           ELSE /\ commands' = commands \o <<Command("BuildOpenCore", model, 0),
                                             Command("ocvalidate", model, returncode)>>
                /\ IF returncode # 0
                   THEN /\ run_pc' = "raised"
                        /\ exception' = "Validation failed for predefined model: " \o model
                        /\ model_index' = model_index
                   ELSE /\ exception' = exception
                        /\ IF model_index + 1 = Len(models)
                           THEN run_pc' = after /\ model_index' = 0
                           ELSE run_pc' = run_pc /\ model_index' = model_index + 1

(* lines 74-90 *)
build_prebuilt ==
    /\ run_pc = "prebuilt"
    /\ build_and_validate(SupportedSMBIOS, "dumps")

(* _validate_configs without its second run *)
build_dumps_single_run ==
    /\ run_pc = "dumps"
    /\ build_and_validate(valid_dumps, "rm_build")

(* lines 93-110, and where _validate_configs goes on after it *)
build_dumps ==
    /\ run_pc = "dumps"
    /\ build_and_validate(valid_dumps, IF settings = "default" THEN "flip" ELSE "rm_build")

(* lines 293-308: the second run, with all settings flipped *)
flip_settings ==
    /\ run_pc = "flip"
    /\ run_pc' = "prebuilt"
    /\ settings' = "flipped"
    /\ UNCHANGED config_frame
    /\ UNCHANGED <<exception, commands, model_index>>

(* line 313, the end of _validate_configs, and line 71 *)
remove_build_folder ==
    /\ run_pc = "rm_build"
    /\ run_pc' = "start"
    /\ commands' = Append(commands, Command("rm", "build_path", 0))
    /\ UNCHANGED config_frame
    /\ UNCHANGED <<exception, settings, model_index>>

NextInit ==
    \/ build_prebuilt
    \/ build_dumps
    \/ flip_settings
    \/ remove_build_folder
    \/ download_payload
    \/ remove_stale_overlay
    \/ detach_stale
    \/ attach_payload
    \/ matrix_call
    \/ matrix_validate
    \/ snb_board_id_patch
    \/ matrix_find_unused
    \/ detach_payload
    \/ remove_overlay

SpecInit == InitInit /\ [][NextInit]_vars

-----------------------------------------------------------------------------

(* Properties *)

(* lexicographic order on (major, minor) *)
LexLT(a, b) == a[1] < b[1] \/ (a[1] = b[1] /\ a[2] < b[2])
LexLE(a, b) == a[1] < b[1] \/ (a[1] = b[1] /\ a[2] <= b[2])

target == <<os_major, os_minor>>

LexInRange(group) == LexLE(group.MinimumOS, target) /\ LexLE(target, group.MaximumOS)

Groups == {patchset_dict[i] : i \in 1..Len(patchset_dict)}

Group(name) == CHOOSE g \in Groups : g.name = name

(* the source tag a group of the built catalog gives a file of "Install" *)
SourceTag(name, file) ==
    LET g == Group(name)
        k == CHOOSE k \in 1..Len(g.Install) : g.Install[k][2] = file
    IN  g.Install[k][3]

Built == patchset_dict # << >>

(* C1: for every group and every target with kernelMinor >= 0, the group  *)
(* is treated as applicable exactly when (minMajor, minMinor) <= (major,  *)
(* minor) <= (maxMajor, maxMinor) lexicographically.                      *)
C1_applicable_iff_lexicographic ==
    pc = "validated" =>
        checked_groups = {g.name : g \in {h \in Groups : LexInRange(h)}}

(* C2: for kernelMinor in 0..9 every comparison the code makes on the     *)
(* decimal value major.minor (the range bounds of every group, the        *)
(* thresholds 21.1, 21.5, 21.6, 22.4, 23.2, 23.4) agrees with the         *)
(* lexicographic comparison of the (major, minor) pairs.                  *)
Thresholds ==
    { <<macOS_12_0_B7, <<21, 1>>>>, <<macOS_12_4, <<21, 5>>>>,
      <<macOS_12_5, <<21, 6>>>>,    <<macOS_13_3, <<22, 4>>>>,
      <<macOS_14_2, <<23, 2>>>>,    <<macOS_14_4, <<23, 4>>>> }

C2_single_digit_minor_is_lexicographic ==
    os_minor <= 9 =>
        /\ \A t \in Thresholds :
            /\ FloatLT(os_float, t[1]) <=> LexLT(target, t[2])
            /\ FloatGE(os_float, t[1]) <=> LexLE(t[2], target)
        /\ \A g \in Groups :
            /\ FloatLT(host_os_float, patch_os_min_float(g)) <=> LexLT(target, g.MinimumOS)
            /\ FloatGT(host_os_float, patch_os_max_float(g)) <=> LexLT(g.MaximumOS, target)
            /\ os_support_admits(g) <=> LexInRange(g)

C2_witness ==
    /\ Built /\ os_major = ventura /\ os_minor = 4
    /\ os_support_admits(Group("Metal 3802 Common Extended"))
    /\ ~FloatLT(os_float, macOS_13_3)

(* C3: each framebuffer family yields its base tag below major 23,         *)
(* base-23 on major 23 below (23, 4), base-23.4 at or above (23, 4), and  *)
(* the three resolvers pick the same tier.                                *)
LadderTag(base) ==
    IF os_major < sonoma THEN base
    ELSE IF LexLT(target, <<23, 4>>) THEN base \o "-23"
    ELSE base \o "-23.4"

C3_three_tier_ladder ==
    Built =>
        /\ SourceTag("Intel Ivy Bridge", "AppleIntelFramebufferCapri.kext") = LadderTag("11.7.10")
        /\ SourceTag("Nvidia Kepler", "GeForce.kext") = LadderTag("12.0 Beta 6")
        /\ SourceTag("Intel Haswell", "AppleIntelFramebufferAzul.kext") = LadderTag("12.5")

(* C4 as stated: at or above the Sonoma major the tag is the base tag     *)
(* suffixed with the target's own kernelMajor, and ".4" at or above 14.4. *)
OwnMajorTag(base) ==
    IF LexLT(target, <<23, 4>>) THEN base \o "-" \o ToString(os_major)
    ELSE base \o "-" \o ToString(os_major) \o ".4"

C4_suffix_is_target_major ==
    (Built /\ os_major >= sonoma) =>
        /\ SourceTag("Intel Ivy Bridge", "AppleIntelFramebufferCapri.kext") = OwnMajorTag("11.7.10")
        /\ SourceTag("Nvidia Kepler", "GeForce.kext") = OwnMajorTag("12.0 Beta 6")
        /\ SourceTag("Intel Haswell", "AppleIntelFramebufferAzul.kext") = OwnMajorTag("12.5")

(* C4 amended: at or above the Sonoma major the suffix is the fixed 23,    *)
(* whatever the target's kernelMajor: base-23.4 for every major above 23  *)
(* and on major 23 with minor 4..9, base-23 on major 23 with minor 0..3,  *)
(* and one of the two on major 23 with a minor of two digits.             *)
FixedSuffixTag(base, tag) ==
    /\ tag \in {base \o "-23", base \o "-23.4"}
    /\ os_major > sonoma => tag = base \o "-23.4"
    /\ (os_major = sonoma /\ os_minor \in 4..9) => tag = base \o "-23.4"
    /\ (os_major = sonoma /\ os_minor \in 0..3) => tag = base \o "-23"

C4_suffix_is_sonoma_major ==
    (Built /\ os_major >= sonoma) =>
        /\ FixedSuffixTag("11.7.10",
               SourceTag("Intel Ivy Bridge", "AppleIntelFramebufferCapri.kext"))
        /\ FixedSuffixTag("11.7.10",
               SourceTag("Intel Ivy Bridge", "AppleIntelHD4000Graphics.kext"))
        /\ FixedSuffixTag("12.0 Beta 6", SourceTag("Nvidia Kepler", "GeForce.kext"))
        /\ FixedSuffixTag("12.5",
               SourceTag("Intel Haswell", "AppleIntelFramebufferAzul.kext"))

C4_witness ==
    /\ Built /\ os_major = sonoma + 1 /\ os_minor = 0
    /\ SourceTag("Intel Ivy Bridge", "AppleIntelFramebufferCapri.kext") = "11.7.10-23.4"

(* the marketing versions of the model that are dotted versions, and the  *)
(* ones at or above the three floors, written out                          *)
WellFormed == MarketingVersions \ { <<"1", "2", ".", "x">>, <<"1", "4", ".">> }

AtLeast_12_7_4 ==
    { <<"1", "2", ".", "7", ".", "4">>, <<"1", "2", ".", "1", "0">>,
      <<"1", "3", ".", "0">>, <<"1", "3", ".", "6", ".", "5">>,
      <<"1", "4", ".", "3", ".", "1">>, <<"1", "4", ".", "4">> }

AtLeast_13_6_5 ==
    { <<"1", "3", ".", "6", ".", "5">>, <<"1", "4", ".", "3", ".", "1">>,
      <<"1", "4", ".", "4">> }

AtLeast_14_4 == { <<"1", "4", ".", "4">> }

(* at or above the floor of the major the string itself begins with *)
AtLeastOwnFloor ==
    { <<"1", "2", ".", "7", ".", "4">>, <<"1", "2", ".", "1", "0">>,
      <<"1", "3", ".", "6", ".", "5">>, <<"1", "4", ".", "4">> }

Constructed == pc # "start"

(* C5 as stated: the predicate is keyed on the kernel major: on majors 21, *)
(* 22, 23 it is true exactly when the marketing version is at or above    *)
(* 12.7.4, 13.6.5, 14.4 respectively, and above the Sonoma major it is    *)
(* true whatever the marketing version.                                   *)
C5_keyed_on_kernel_major ==
    (Constructed /\ marketing_version \in WellFormed) =>
        /\ os_major = monterey =>
               (affected_by_cve_2024_23227 <=> marketing_version \in AtLeast_12_7_4)
        /\ os_major = ventura =>
               (affected_by_cve_2024_23227 <=> marketing_version \in AtLeast_13_6_5)
        /\ os_major = sonoma =>
               (affected_by_cve_2024_23227 <=> marketing_version \in AtLeast_14_4)
        /\ os_major > sonoma => affected_by_cve_2024_23227

(* C5 amended: the predicate is keyed on the leading characters of the     *)
(* marketing version, not on the kernel major: on majors 21, 22, 23 it is  *)
(* true exactly when the marketing version begins with 12, 13 or 14 and is at *)
(* or above 12.7.4, 13.6.5, 14.4 respectively, so (21, 12.7.4) is         *)
(* affected and (21, 12.7.3) is not; above the Sonoma major it is true    *)
(* whatever the marketing version.                                        *)
C5_keyed_on_marketing_version ==
    /\ (Constructed /\ marketing_version \in WellFormed /\ os_major \in monterey..sonoma) =>
           (affected_by_cve_2024_23227 <=> marketing_version \in AtLeastOwnFloor)
    /\ (Constructed /\ os_major > sonoma) =>
           (affected_by_cve_2024_23227 /\ exception # "InvalidVersion")

C5_witness ==
    /\ Built /\ os_major = monterey
    /\ marketing_version = <<"1", "3", ".", "0">>
    /\ ~affected_by_cve_2024_23227

(* C6 as stated: on a major that is neither 21, 22, 23 nor newer than the  *)
(* Sonoma major the predicate is false for every marketing version.       *)
C6_other_major_never_affected ==
    (Constructed /\ marketing_version \in WellFormed /\ os_major < monterey) =>
        ~affected_by_cve_2024_23227

(* C6 amended: on a major below 21 the predicate is decided by the         *)
(* marketing version alone: false for a version that does not begin with  *)
(* 12, 13 or 14 or lies below the floor of its prefix, true for one that  *)
(* begins with 12, 13 or 14 and is at or above 12.7.4, 13.6.5, 14.4.      *)
C6_other_major_by_marketing_version ==
    (Constructed /\ marketing_version \in WellFormed /\ os_major < monterey) =>
        (affected_by_cve_2024_23227 <=> marketing_version \in AtLeastOwnFloor)

C6_witness ==
    /\ Built /\ os_major = big_sur
    /\ marketing_version = <<"1", "2", ".", "7", ".", "4">>
    /\ affected_by_cve_2024_23227

(* C7: on a major at or below the Sonoma major a marketing version that    *)
(* does not parse as a dotted version gives "not affected" and the        *)
(* catalog is built; nothing is raised.                                   *)
C7_malformed_is_not_affected ==
    (/\ Constructed
     /\ os_major <= sonoma
     /\ marketing_version \notin WellFormed
     /\ non_metal_os_support # << >>) =>
        /\ exception # "InvalidVersion"
        /\ ~affected_by_cve_2024_23227
        /\ Built

(* C8 as stated: for every non-empty ascending legacy list every group of  *)
(* the catalog has minimum <= maximum.                                     *)
C8_min_le_max ==
    Built => \A g \in Groups : LexLE(g.MinimumOS, g.MaximumOS)

(* C8 amended: for every non-empty ascending legacy list whose first      *)
(* major is at most the max-OS major (99) every group of the catalog has  *)
(* minimum <= maximum, the groups bounded by the legacy list included.    *)
C8_min_le_max_below_max_os ==
    (Built /\ non_metal_os_support[1] <= max_os) =>
        /\ \A g \in Groups : LexLE(g.MinimumOS, g.MaximumOS)
        /\ Group("Non-Metal Enforcement").MinimumOS = <<non_metal_os_support[1], 0>>
        /\ Group("Non-Metal Enforcement").MaximumOS =
               <<non_metal_os_support[Len(non_metal_os_support)], 99>>
        /\ Group("High Sierra GVA").MinimumOS = <<non_metal_os_support[1], 0>>
        /\ Group("High Sierra GVA").MaximumOS = <<max_os, 99>>

C8_witness ==
    /\ Built /\ non_metal_os_support = <<big_sur, monterey, ventura>>
    /\ Group("Non-Metal Enforcement").MinimumOS = <<big_sur, 0>>
    /\ Group("Non-Metal Enforcement").MaximumOS = <<ventura, 99>>

(* the destinations (directory, file) of a group's "Install" *)
Destinations(g) == {<<g.Install[k][1], g.Install[k][2]>> : k \in 1..Len(g.Install)}

(* the groups of the built catalog the range test lets through *)
InRange == {i \in 1..Len(patchset_dict) : os_support_admits(patchset_dict[i])}

(* the tag the last entry of group g for destination d carries *)
TagOf(g, d) ==
    LET ks == {k \in 1..Len(g.Install) : <<g.Install[k][1], g.Install[k][2]>> = d}
    IN  g.Install[CHOOSE k \in ks : \A j \in ks : j <= k][3]

IOSurface == <<"/System/Library/Extensions", "IOSurface.kext">>

airportd == <<"/usr/libexec", "airportd">>

(* C9: when several groups in range map the same destination, the plan    *)
(* holds one source tag for it, the one of the group declared last: for   *)
(* every destination of the plan, and so IOSurface.kext comes from        *)
(* 10.14.6 (Non-Metal IOAccelerator Common over Non-Metal Common) and     *)
(* airportd from 13.6.5 (Modern Wireless over Legacy Wireless).           *)
C9_later_group_wins ==
    pc = "resolved" =>
        /\ LET dests == [i \in InRange |-> Destinations(patchset_dict[i])]
           IN  /\ DOMAIN plan.InstallRoot = UNION {dests[i] : i \in InRange}
               /\ \A d \in DOMAIN plan.InstallRoot :
                   LET mapping == {i \in InRange : d \in dests[i]}
                       last    == CHOOSE i \in mapping : \A j \in mapping : j <= i
                   IN  plan.InstallRoot[d] = TagOf(patchset_dict[last], d)
        /\ {"Non-Metal Common", "Non-Metal IOAccelerator Common"} \subseteq admitted_groups(patchset_dict, {})
               => plan.InstallRoot[IOSurface] = "10.14.6"
        /\ {"Legacy Wireless", "Modern Wireless"} \subseteq admitted_groups(patchset_dict, {})
               => plan.InstallRoot[airportd] = "13.6.5"

C9_witness ==
    /\ pc = "resolved"
    /\ {"Non-Metal Common", "Non-Metal IOAccelerator Common",
        "Legacy Wireless", "Modern Wireless"} \subseteq admitted_groups(patchset_dict, {})
    /\ plan.InstallRoot[IOSurface] = "10.14.6"
    /\ plan.InstallRoot[airportd] = "13.6.5"

(* C10: for the target (22, 0, "13.0", [20, 21, 22]) every group whose     *)
(* range is built from the legacy list is let through by the range test   *)
(* and every group whose minimum major is above 22 (AMD Legacy GCN v2,    *)
(* Modern Wireless, Legacy USB 1.1 Extended, PCIe FaceTime Camera, T1     *)
(* Security Chip) is skipped.                                             *)
VenturaScenario ==
    /\ os_major = ventura /\ os_minor = 0
    /\ marketing_version = <<"1", "3", ".", "0">>
    /\ non_metal_os_support = <<big_sur, monterey, ventura>>

NonMetalGroups ==
    { "Non-Metal Common", "Non-Metal IOAccelerator Common",
      "Non-Metal CoreDisplay Common", "Non-Metal Enforcement",
      "High Sierra GVA", "Legacy Keyboard Backlight" }

SonomaOnlyGroups ==
    { "AMD Legacy GCN v2", "Modern Wireless", "Legacy USB 1.1 Extended",
      "PCIe FaceTime Camera", "T1 Security Chip" }

C10_ventura_scenario ==
    (VenturaScenario /\ pc = "validated") =>
        /\ {g.name : g \in {h \in Groups : h.MinimumOS[1] = non_metal_os_support[1]}}
               = NonMetalGroups
        /\ {g.name : g \in {h \in Groups : h.MinimumOS[1] > ventura}} = SonomaOnlyGroups
        /\ NonMetalGroups \subseteq checked_groups
        /\ SonomaOnlyGroups \cap checked_groups = {}

C10_witness ==
    /\ VenturaScenario /\ pc = "validated"
    /\ "Non-Metal Common" \in checked_groups
    /\ "T1 Security Chip" \notin checked_groups

(* the payload paths of the install entries of the groups in range for   *)
(* the target, built from the entries of the catalog                      *)
EntryPath(e) ==
    payload_local_binaries_root_path \o "/" \o e[3] \o e[1] \o "/" \o e[2]

InstallPaths(g) ==
    {EntryPath(g.Install[k]) : k \in 1..Len(g.Install)}
        \cup {EntryPath(g.InstallNonRoot[k]) : k \in 1..Len(g.InstallNonRoot)}

InRangeInstallPaths == UNION {InstallPaths(g) : g \in {h \in Groups : LexInRange(h)}}

FailedToFind(p) == exception = "Failed to find " \o p

(* the cross-validation of the built catalog has returned or raised *)
CrossValidated == Built /\ pc \in {"validated", "raised"}

(* C11: the cross-validation of a version raises no missing-file error     *)
(* exactly when every install path (root/tag/directory/file) of every     *)
(* group in range exists; when one is absent the error names an absent    *)
(* install path of a group in range; paths the store lacks that only      *)
(* groups out of range (or no install entry) name never make it fail.     *)
C11_fails_exactly_on_missing_install_path ==
    CrossValidated =>
        LET missing == InRangeInstallPaths \cap payload_absent
        IN  /\ missing = {} =>
                   /\ \A p \in payload_absent : ~FailedToFind(p)
                   /\ pc = "raised" => exception = "Failed to generate patchset plist"
            /\ missing # {} =>
                   /\ pc = "raised"
                   /\ \E p \in missing : FailedToFind(p)

C11_witness ==
    /\ CrossValidated /\ pc = "validated"
    /\ os_major = ventura /\ os_minor = 3
    /\ payload_absent # {}
    /\ InRangeInstallPaths \cap payload_absent = {}

C11_witness_missing ==
    /\ CrossValidated /\ pc = "raised"
    /\ os_major = ventura /\ os_minor = 4
    /\ FailedToFind(payload_local_binaries_root_path
                        \o "/13.2.1-22/System/Library/Frameworks/Metal.framework")

(* C12: the cross-validation stops at the first install entry, in the      *)
(* order of the catalog, whose path is absent: every path tested before   *)
(* it exists, nothing is tested after it, the absent path is not among    *)
(* the used files, no descriptor is written for the version and the run   *)
(* has ended.                                                             *)
C12_fail_fast ==
    (CrossValidated /\ \E p \in payload_absent : FailedToFind(p)) =>
        LET all == source_files(patchset_dict)
            n   == Len(checked_files)
        IN  /\ n > 0 /\ checked_files = SubSeq(all, 1, n)
            /\ FailedToFind(checked_files[n])
            /\ \A k \in 1..(n - 1) : checked_files[k] \notin payload_absent
            /\ \A k \in 1..Len(active_patchset_files) :
                   active_patchset_files[k] \notin payload_absent
            /\ verify_unused_files =>
                   /\ Len(active_patchset_files) >= n - 1
                   /\ SubSeq(active_patchset_files,
                             Len(active_patchset_files) - n + 2,
                             Len(active_patchset_files)) = SubSeq(all, 1, n - 1)
            /\ plist_name \notin descriptors
            /\ run_pc = "raised"
            /\ validated_versions[Len(validated_versions)] = target

C12_witness ==
    /\ run_pc = "raised" /\ verify_unused_files
    /\ os_major = ventura /\ os_minor = 4
    /\ FailedToFind(payload_local_binaries_root_path
                        \o "/13.2.1-22/System/Library/Frameworks/Metal.framework")
    /\ Len(checked_files) < Len(source_files(patchset_dict))
    /\ active_patchset_files # << >>

(* The entries of TreeCandidates written out: the relative path of each,  *)
(* whether it is a housekeeping entry, and the used files whose relative  *)
(* path contains its relative path or is contained in it.                 *)
UsedIOSurface ==
    payload_local_binaries_root_path \o "/10.14.6/System/Library/Extensions/IOSurface.kext"

UsedAirportd == payload_local_binaries_root_path \o "/11.7.10/usr/libexec/airportd"

TreeTable ==
    { [ rel |-> "10.14.6/System/Library/Extensions/IOSurface.kext", is_dir |-> TRUE,
        housekeeping |-> FALSE, matches |-> {UsedIOSurface} ],
      [ rel |-> "10.14.6/System/Library/Extensions/IOSurface.kext/Contents/Info.plist",
        is_dir |-> FALSE, housekeeping |-> FALSE, matches |-> {UsedIOSurface} ],
      [ rel |-> "11.7.10/usr/libexec/airportd", is_dir |-> FALSE,
        housekeeping |-> FALSE, matches |-> {UsedAirportd} ],
      [ rel |-> "11.7.10/usr/libexec/airportd.bak", is_dir |-> FALSE,
        housekeeping |-> FALSE, matches |-> {UsedAirportd} ],
      [ rel |-> "airportd", is_dir |-> FALSE,
        housekeeping |-> FALSE, matches |-> {UsedAirportd} ],
      [ rel |-> "12.5/Orphaned.dylib", is_dir |-> FALSE,
        housekeeping |-> FALSE, matches |-> {} ],
      [ rel |-> "10.14.6/.DS_Store", is_dir |-> FALSE,
        housekeeping |-> TRUE, matches |-> {} ],
      [ rel |-> ".signed", is_dir |-> FALSE, housekeeping |-> TRUE, matches |-> {} ],
      [ rel |-> ".fseventsd/fseventsd-uuid", is_dir |-> FALSE,
        housekeeping |-> TRUE, matches |-> {} ] }

UsedSet == {active_patchset_files[k] : k \in 1..Len(active_patchset_files)}

(* the files of the tree that are neither directories nor housekeeping *)
TreeFiles ==
    { t \in TreeTable : /\ InPayload(t.rel, t.is_dir) \in payload_tree
                        /\ ~t.is_dir /\ ~t.housekeeping }

(* the files no used path matches, one way or the other *)
Orphaned == {t.rel : t \in {u \in TreeFiles : u.matches \cap UsedSet = {}}}

(* C13 as stated: for every tree and every list of used files, the empty  *)
(* one included, the walk reports exactly the files, housekeeping aside,  *)
(* whose relative path neither contains nor is contained in a used one.   *)
C13_reports_exactly_the_orphans ==
    run_pc = "found" => unused_files = Orphaned

(* C13 amended: the same for every non-empty list of used files; for the  *)
(* empty list the walk is skipped and nothing is reported.                *)
C13_reports_orphans_unless_no_used_files ==
    run_pc = "found" =>
        unused_files = IF active_patchset_files = << >> THEN {} ELSE Orphaned

C13_witness ==
    /\ run_pc = "found"
    /\ UsedSet = {UsedIOSurface}
    /\ unused_files = {"11.7.10/usr/libexec/airportd", "12.5/Orphaned.dylib"}
    /\ InPayload("10.14.6/System/Library/Extensions/IOSurface.kext/Contents/Info.plist", FALSE)
           \in payload_tree
    /\ InPayload(".signed", FALSE) \in payload_tree

(* the used files are files of the tree, and at most one file of the tree *)
(* is not a used file                                                     *)
CoveredButOne ==
    /\ UsedSet \subseteq {payload_local_binaries_root_path \o "/" \o t.rel : t \in TreeFiles}
    /\ Cardinality({t \in TreeFiles :
                       payload_local_binaries_root_path \o "/" \o t.rel \notin UsedSet}) <= 1

Extra == {t \in TreeFiles : payload_local_binaries_root_path \o "/" \o t.rel \notin UsedSet}

(* C14 as stated: nothing is reported when the used files cover the tree, *)
(* and a single extra file is reported whatever its path.                 *)
C14_extra_file_always_reported ==
    (run_pc = "found" /\ CoveredButOne) => unused_files = {t.rel : t \in Extra}

(* C14 amended: nothing is reported when the used files cover the tree;   *)
(* a single extra file is reported when the list of used files is not     *)
(* empty and the file's relative path neither contains nor is contained   *)
(* in the relative path of a used file, and is not reported otherwise.    *)
C14_extra_file_reported_unless_matched ==
    (run_pc = "found" /\ CoveredButOne) =>
        unused_files =
            {t.rel : t \in {u \in Extra : UsedSet # {} /\ u.matches \cap UsedSet = {}}}

C14_witness ==
    /\ run_pc = "found" /\ CoveredButOne
    /\ UsedSet = {UsedAirportd}
    /\ {t.rel : t \in Extra} = {"12.5/Orphaned.dylib"}
    /\ unused_files = {"12.5/Orphaned.dylib"}

(* every version of the matrix has been cross-validated *)
MatrixDone ==
    /\ Len(validated_versions) = Len(supported_os) * 10
    /\ pc = "validated"

(* the paths of checked_files that exist, in order *)
Passed(files) ==
    LET exists(p) == p \notin payload_absent
    IN  SelectSeq(files, exists)

(* C15: usage tracking and orphan detection are opt-in.  With              *)
(* verify_unused_files false no path is ever recorded and the detection   *)
(* never runs; with it true each cross-validation appends every path      *)
(* that passed its existence test, and the detection runs once, after     *)
(* the whole matrix and while the image is still attached.                *)
C15_tracking_is_opt_in ==
    /\ [](~verify_unused_files => (active_patchset_files = << >> /\ find_unused_runs = 0))
    /\ []((run_pc \in {"detach", "remove_overlay", "done"} /\ verify_unused_files)
              => find_unused_runs = 1)
    /\ [][ /\ (pc = "constructed" /\ pc' # "constructed" /\ verify_unused_files)
               => active_patchset_files' = active_patchset_files \o Passed(checked_files')
           /\ find_unused_runs' # find_unused_runs
               => /\ verify_unused_files
                  /\ find_unused_runs = 0 /\ find_unused_runs' = 1
                  /\ MatrixDone
                  /\ mounted /\ mounted' /\ ~unmount_attempted' ]_vars

C15_witness ==
    /\ run_pc = "done" /\ verify_unused_files
    /\ find_unused_runs = 1
    /\ Len(active_patchset_files) > Len(checked_files)
    /\ unused_files = {"12.5/Orphaned.dylib"}

(* Big Sur 20, Monterey 21, Ventura 22, Sonoma 23, each with minors 0..9 *)
MatrixOrder ==
    [k \in 1..40 |-> <<20 + ((k - 1) \div 10), (k - 1) % 10>>]

(* C16: the versions cross-validated so far are a prefix of the            *)
(* major-outer, minor-ascending enumeration of {20..23} x {0..9}, the      *)
(* version being validated is the last of them, and a run that got past   *)
(* the matrix without failure has validated all forty, each once.         *)
C16_matrix_order ==
    /\ Len(validated_versions) <= 40
    /\ validated_versions = SubSeq(MatrixOrder, 1, Len(validated_versions))
    /\ (pc \in {"constructed", "validated"} /\ validated_versions # << >>)
           => validated_versions[Len(validated_versions)] = <<os_major, os_minor>>
    /\ run_pc \in {"snb", "unused", "detach", "remove_overlay", "done"}
           => /\ validated_versions = MatrixOrder
              /\ pc = "validated"
              /\ \A major \in 20..23, minor \in 0..9 :
                     Cardinality({k \in 1..40 : validated_versions[k] = <<major, minor>>}) = 1

C16_witness ==
    /\ run_pc = "done"
    /\ Len(validated_versions) = 40
    /\ validated_versions[11] = <<21, 0>>
    /\ validated_versions[40] = <<23, 9>>

(* the run was ended by a failure of the cross-validation of a version *)
CrossValidationFailed ==
    /\ run_pc = "raised"
    /\ pc = "raised"
    /\ validated_versions # << >>
    /\ \/ \E p \in payload_absent : FailedToFind(p)
       \/ exception = "Failed to generate patchset plist"

(* C18: when the cross-validation of a version fails the run stops at    *)
(* that version, and the exception that is raised names its              *)
(* (major, minor).                                                       *)
C18_failure_names_the_version ==
    CrossValidationFailed
        => /\ validated_versions[Len(validated_versions)] = <<os_major, os_minor>>
           /\ find_unused_runs = 0
           /\ in_str(ToString(os_major) \o "." \o ToString(os_minor), exception)

(* the run has ended on one of the exit paths that follow the attach *)
EndedAfterAttach ==
    \/ run_pc = "done"
    \/ CrossValidationFailed
    \/ run_pc = "raised" /\ exception = "snb_board_id_patch"

(* C19: whichever way the run ends after the image was attached, the      *)
(* image is detached and the shadow overlay is deleted by then.           *)
C19_released_on_every_exit ==
    EndedAfterAttach => (~mounted /\ ~overlay_exists)

(* C20: a validation failure is followed by an attempt to unmount the     *)
(* image, and whatever the outcome of that attempt the run reports the    *)
(* validation failure, never "Failed to unmount Universal-Binaries.dmg".  *)
C20_unmount_failure_does_not_mask ==
    CrossValidationFailed
        => /\ unmount_attempted
           /\ exception # "Failed to unmount Universal-Binaries.dmg"

(* the commands of the run so far that ran cmd and exited with rc *)
Issued(cmd, rc) == {i \in 1..Len(commands) : commands[i][1] = cmd /\ commands[i][4] = rc}

(* the commands of the run so far that ran cmd, whatever the exit code *)
IssuedAny(cmd) == {i \in 1..Len(commands) : commands[i][1] = cmd}

(* C21: a version is cross-validated only after an attach of the payload  *)
(* image exited with 0 in this run; an attach that exits non-zero ends    *)
(* the run with "Failed to mount Universal-Binaries.dmg" and no version   *)
(* validated.                                                             *)
C21_validation_needs_attach ==
    /\ (validated_versions # << >> \/ run_pc \in {"matrix", "snb", "unused", "detach"})
           => Issued("hdiutil attach", 0) # {}
    /\ Issued("hdiutil attach", 1) # {}
           => /\ run_pc = "raised"
              /\ exception = "Failed to mount Universal-Binaries.dmg"
              /\ validated_versions = << >>
              /\ pc = "start"

C21_witness ==
    /\ Issued("hdiutil attach", 1) # {}
    /\ run_pc = "raised"
    /\ validated_versions = << >>

(* C22: the download is attempted once when the payload archive is absent *)
(* and not at all when it is present; a download that does not complete   *)
(* ends the run before any detach, attach or cross-validation.            *)
C22_download_once_or_abort ==
    /\ [](Cardinality(IssuedAny("download")) <= 1)
    /\ [](Issued("download", 1) # {}
             => /\ run_pc = "raised"
                /\ exception = "Failed to download Universal-Binaries.dmg"
                /\ commands = <<Command("download", "Universal-Binaries.dmg", 1)>>
                /\ validated_versions = << >>
                /\ pc = "start")
    /\ [][ /\ dmg_exists => IssuedAny("download")' = IssuedAny("download")
           /\ (~dmg_exists /\ run_pc = "start" /\ run_pc' # "start")
                  => (IssuedAny("download")' = {1} /\ Len(commands') = 1) ]_vars

C22_witness ==
    /\ Issued("download", 1) = {1}
    /\ run_pc = "raised"
    /\ ~dmg_exists

(* the supported-SMBIOS models and the entries of the valid-dumps list *)
ConfigModels ==
    {SupportedSMBIOS[k] : k \in 1..Len(SupportedSMBIOS)}
        \cup {valid_dumps[k] : k \in 1..Len(valid_dumps)}

(* the builder and validator invocations so far for a model and profile *)
Builds(model, profile) ==
    {i \in 1..Len(commands) : commands[i] = <<"BuildOpenCore", model, profile, 0>>}

Validations(model, profile) ==
    {i \in 1..Len(commands) : commands[i][1] = "ocvalidate" /\ commands[i][2] = model
                                  /\ commands[i][3] = profile}

(* _validate_configs has returned *)
ConfigsDone == \E i \in 1..Len(commands) : commands[i][1] = "rm" /\ commands[i][2] = "build_path"

(* C23: once the config matrix has completed, every supported-SMBIOS      *)
(* model and every valid-dumps entry has been built once and validated    *)
(* once under the default profile and once under the flipped profile,     *)
(* every default build comes before every flipped build, and at all       *)
(* times each validator invocation directly follows the builder           *)
(* invocation for the same model and profile.                             *)
C23_config_matrix ==
    /\ \A i \in 1..Len(commands) :
           commands[i][1] = "ocvalidate"
               => /\ i > 1
                  /\ commands[i - 1] = <<"BuildOpenCore", commands[i][2], commands[i][3], 0>>
    /\ \A i \in 1..Len(commands) :
           (commands[i][1] = "BuildOpenCore" /\ commands[i][4] = 0)
               => /\ i < Len(commands)
                  /\ commands[i + 1][1] = "ocvalidate"
    /\ \A i, j \in 1..Len(commands) :
           (/\ commands[i][1] = "BuildOpenCore" /\ commands[i][3] = "default"
            /\ commands[j][1] = "BuildOpenCore" /\ commands[j][3] = "flipped")
               => i < j
    /\ ConfigsDone
           => \A model \in ConfigModels, profile \in {"default", "flipped"} :
                  /\ Cardinality(Builds(model, profile)) = 1
                  /\ Cardinality(Validations(model, profile)) = 1
                  /\ \A i \in Validations(model, profile) : commands[i][4] = 0
    /\ ConfigsDone
           => Cardinality(IssuedAny("BuildOpenCore") \cup IssuedAny("ocvalidate"))
                  = 4 * Cardinality(ConfigModels)

C23_witness ==
    /\ ConfigsDone
    /\ run_pc = "start"
    /\ Builds("MacPro.MacPro31_Stock", "default") # {}
    /\ Builds("iMac7,1", "flipped") # {}

(* the validator invocations so far that exited non-zero *)
FailedValidations == Issued("ocvalidate", 1)

(* C24: a non-zero exit code of the validator ends the run there: the     *)
(* failed invocation is the last command of the run, the run has raised   *)
(* "Validation failed for predefined model: <model>", and nothing of the  *)
(* sys-patch validation (download, mount, version matrix) has happened.   *)
C24_validator_failure_is_fatal ==
    \A i \in FailedValidations :
        /\ i = Len(commands)
        /\ run_pc = "raised"
        /\ exception = "Validation failed for predefined model: " \o commands[i][2]
        /\ IssuedAny("download") \cup IssuedAny("hdiutil attach")
               \cup IssuedAny("hdiutil detach") = {}
        /\ validated_versions = << >>
        /\ pc = "start"

C24_witness ==
    /\ FailedValidations # {}
    /\ run_pc = "raised"
    /\ settings = "flipped"
    /\ commands[Len(commands)][2] = "MacPro.MacPro41_Upgrade"

(* C25: with an empty non_metal_os_support the construction of the       *)
(* catalog raises whatever the kernel major, kernel minor and marketing   *)
(* version are, and no catalog is produced.                               *)
C25_empty_legacy_list_raises ==
    (non_metal_os_support = << >> /\ pc # "start")
        => /\ pc = "raised"
           /\ exception \in {"IndexError", "InvalidVersion"}
           /\ patchset_dict = << >>
           /\ plan = empty_plan

C25_witness ==
    /\ non_metal_os_support = << >>
    /\ pc = "raised"
    /\ exception = "IndexError"
    /\ os_major = MaxKernelMajor

(* the built catalog's group has an "Install" entry for the file *)
HasFile(name, file) ==
    \E k \in 1..Len(Group(name).Install) : Group(name).Install[k][2] = file

(* the first decimal digit of a minor version *)
RECURSIVE LeadingDigit(_)
LeadingDigit(n) == IF n < 10 THEN n ELSE LeadingDigit(n \div 10)

InRange3802Extended == Built /\ LexInRange(Group("Metal 3802 Common Extended"))

(* C26: in "Metal 3802 Common Extended", for every target in the group's  *)
(* range, RenderBox.framework is present and MTLCompiler.framework and    *)
(* GPUCompiler.framework are both present with one source tag: "13.2.1"   *)
(* on kernel major 22, "14.2 Beta 1" from (23, 2) on.                     *)
C26_compilers_always_present ==
    InRange3802Extended
        => /\ HasFile("Metal 3802 Common Extended", "RenderBox.framework")
           /\ HasFile("Metal 3802 Common Extended", "MTLCompiler.framework")
           /\ HasFile("Metal 3802 Common Extended", "GPUCompiler.framework")
           /\ SourceTag("Metal 3802 Common Extended", "MTLCompiler.framework")
                  = SourceTag("Metal 3802 Common Extended", "GPUCompiler.framework")
           /\ os_major = 22
                  => SourceTag("Metal 3802 Common Extended", "MTLCompiler.framework") = "13.2.1"
           /\ LexLE(<<23, 2>>, target)
                  => SourceTag("Metal 3802 Common Extended", "MTLCompiler.framework")
                         = "14.2 Beta 1"

(* C26, amended: RenderBox.framework is present on every in-range target; *)
(* the two compilers are present together or absent together, with one    *)
(* source tag: "13.2.1" on kernel major 22, "14.2 Beta 1" on the targets   *)
(* whose major.minor read as a decimal number is at least 23.2; on the    *)
(* other in-range targets, (23, 0), (23, 1) and (23, 10) among them, the  *)
(* group installs neither.                                                *)
C26_compilers_present_on_22_and_from_14_2 ==
    InRange3802Extended
        => LET has_mtl == HasFile("Metal 3802 Common Extended", "MTLCompiler.framework")
               has_gpu == HasFile("Metal 3802 Common Extended", "GPUCompiler.framework")
               decimal_from_23_2 ==
                   os_major > 23 \/ (os_major = 23 /\ LeadingDigit(os_minor) >= 2)
           IN  /\ HasFile("Metal 3802 Common Extended", "RenderBox.framework")
               /\ has_mtl <=> has_gpu
               /\ has_mtl <=> (os_major = 22 \/ decimal_from_23_2)
               /\ has_mtl
                      => /\ SourceTag("Metal 3802 Common Extended", "MTLCompiler.framework")
                                = SourceTag("Metal 3802 Common Extended", "GPUCompiler.framework")
                         /\ SourceTag("Metal 3802 Common Extended", "MTLCompiler.framework")
                                = IF os_major = 22 THEN "13.2.1" ELSE "14.2 Beta 1"

C26_witness ==
    /\ InRange3802Extended
    /\ os_major = 23 /\ os_minor = 1
    /\ ~HasFile("Metal 3802 Common Extended", "MTLCompiler.framework")
    /\ HasFile("Metal 3802 Common Extended", "RenderBox.framework")

(* the payload path of airportd under a source tag *)
Airportd(tag) == payload_local_binaries_root_path \o "/" \o tag \o "/usr/libexec/airportd"

InSeq(p, seq) == \E k \in 1..Len(seq) : seq[k] = p

(* the airportd source tag the CVE flag selects, and the one it does not *)
AirportdSelected == IF affected_by_cve_2024_23227 THEN "11.7.10-Sandbox" ELSE "11.7.10"

AirportdOther == IF affected_by_cve_2024_23227 THEN "11.7.10" ELSE "11.7.10-Sandbox"

(* C27: in a run of the version matrix the marketing version never        *)
(* changes, so every catalog of the run is built with the same CVE flag;  *)
(* no validation of the run tests the airportd of the source tag the flag *)
(* does not select, and a run that got through the matrix has tested the  *)
(* airportd of the tag it selects.                                        *)
C27_one_airportd_tag_per_run ==
    /\ [][marketing_version' = marketing_version]_vars
    /\ [][(pc \in {"constructed", "validated"} /\ pc' = "constructed")
              => affected_by_cve_2024_23227' = affected_by_cve_2024_23227]_vars
    /\ [](~InSeq(Airportd(AirportdOther), checked_files)
              /\ ~InSeq(Airportd(AirportdOther), active_patchset_files))
    /\ [](run_pc \in {"snb", "unused", "detach", "remove_overlay", "done"}
              => /\ InSeq(Airportd(AirportdSelected), checked_files)
                 /\ verify_unused_files
                        => InSeq(Airportd(AirportdSelected), active_patchset_files))

C27_witness ==
    /\ run_pc = "done"
    /\ affected_by_cve_2024_23227
    /\ verify_unused_files
    /\ InSeq(Airportd("11.7.10-Sandbox"), active_patchset_files)
    /\ ~InSeq(Airportd("11.7.10"), active_patchset_files)
    /\ Len(validated_versions) = 40

(* C28: a mountpoint that exists when the run starts is detached (with    *)
(* -force) before the attach, so nothing is attached at the moment of     *)
(* the attach; a non-zero exit of that detach ends the run with no        *)
(* attach and no version validated; a run that reaches the                *)
(* cross-validation has issued exactly one attach.                        *)
C28_stale_mount_detached_first ==
    /\ [][ /\ (run_pc = "stale" /\ run_pc' # "stale")
                  => IF mounted
                     THEN /\ Len(commands') = Len(commands) + 1
                          /\ commands'[Len(commands')][1] = "hdiutil detach"
                          /\ commands'[Len(commands')][4] = 0 <=> ~mounted'
                     ELSE commands' = commands
           /\ IssuedAny("hdiutil attach")' # IssuedAny("hdiutil attach") => ~mounted ]_vars
    /\ [](run_pc \in {"start", "overlay", "stale"}
              => IssuedAny("hdiutil attach") \cup IssuedAny("hdiutil detach") = {})
    /\ []((Issued("hdiutil detach", 1) # {} /\ validated_versions = << >>)
              => /\ run_pc = "raised"
                 /\ exception = "Failed to unmount Universal-Binaries.dmg"
                 /\ IssuedAny("hdiutil attach") = {}
                 /\ pc = "start")
    /\ [](validated_versions # << >> => Cardinality(IssuedAny("hdiutil attach")) = 1)

C28_witness ==
    /\ \E d \in Issued("hdiutil detach", 0), a \in Issued("hdiutil attach", 0) : d < a
    /\ validated_versions # << >>

(* the step deletes the shadow file *)
OverlayDeleted ==
    /\ Len(commands') = Len(commands) + 1
    /\ commands'[Len(commands')][1] = "rm"
    /\ commands'[Len(commands')][2] = "Universal-Binaries_overlay"

(* C29: whenever the shadow file is deleted the payload image is not      *)
(* attached at the mountpoint.                                            *)
C29_overlay_deleted_only_when_detached ==
    [][OverlayDeleted => ~mounted]_vars

(* C29, amended: the deletion at the end of the run comes directly after  *)
(* a detach that exited with 0, with nothing attached; the deletion at    *)
(* the start of the run comes before any detach or attach of the run, so  *)
(* an image that an earlier run left attached is still attached then.     *)
C29_final_deletion_follows_detach ==
    [][OverlayDeleted
          => IF IssuedAny("hdiutil attach") # {}
             THEN /\ ~mounted
                  /\ commands[Len(commands)][1] = "hdiutil detach"
                  /\ commands[Len(commands)][4] = 0
                  /\ run_pc' = "done"
             ELSE /\ IssuedAny("hdiutil detach") = {}
                  /\ mounted' = mounted
                  /\ run_pc' = "stale"]_vars

C29_witness ==
    /\ run_pc = "stale"
    /\ mounted
    /\ ~overlay_exists
    /\ commands # << >>
    /\ commands[Len(commands)][1] = "rm"

(* the descriptor of the version has been serialised *)
Serialised == Built /\ pc = "validated" /\ serialized # {}

(* C30: the groups handed to the serialiser for a (major, minor) are      *)
(* exactly the groups that were cross-validated for it, the groups whose  *)
(* range includes (major, minor).                                         *)
C30_descriptor_holds_validated_groups ==
    Serialised
        => /\ serialized = checked_groups
           /\ \A g \in Groups : g.name \in serialized => LexInRange(g)

=============================================================================
